---- MODULE Spec2Model ----
(***************************************************************************)
(* Model of the WTask component (Task / NTask / RTask / WorkQueue):        *)
(* the global NTask directory with its identifier allocation, the          *)
(* notification queue and ring buffer channels, the work queue loop and    *)
(* the scheduler task of an actor; and of the ultrasound distance sensor.  *)
(***************************************************************************)
EXTENDS Integers, Sequences, FiniteSets, TLC

(***************************************************************************)
(* Bounds of the model.                                                    *)
(***************************************************************************)
\* live NTask objects of type PreType the directory may already hold when
\* the explored behaviour starts (ids 1..PreLoad, the outcome of PreLoad
\* constructions)
PreLoad == 254
\* further object addresses at which NTasks are constructed and destroyed
NumDyn == 2
\* workQueueLength given to the WorkQueue constructor
WorkQueueLength == 2
\* notification_queue_size and ringbuffer_size given to the reply target
RTQueueLength == 2
RTRingSize == 32
\* sendWork / sendDataTo calls the client threads make in one behaviour
MaxCalls == 3

(***************************************************************************)
(* Program constants.                                                      *)
(***************************************************************************)
NTASK_ID_STARTING == 1
NTASK_ID_LIMIT == 255
NTASK_TYPE_NOTIF_ISR_CONTX == 255
NTASK_TYPE_NOTIF_WORK_QUEU == 254

NOTIFICATION_WORK_IN_QUEUE == 1
\* 0xffffffff, every bit set: written as the 32-bit two's complement number
portMAX_DELAY == -1
\* sizeof(WorkItem) on the 32-bit target: three pointers, a uint16_t, padding
SizeofWorkItem == 16
\* esp ring buffer (RINGBUF_TYPE_NOSPLIT): header bytes stored with each item
RingItemHeader == 8

\* the null pointer
NULL == 0

\* Ultrasound_StateMachine_t
ULTRASOUND_STATE_INIT == 0
ULTRASOUND_STATE_WAIT_TRIG_START == 1
ULTRASOUND_STATE_WAIT_TRIG_END == 2
ULTRASOUND_STATE_WAIT_ECHO_START == 3
ULTRASOUND_STATE_WAIT_ECHO_END == 4
VELOCITY_SOUND_MM_PER_MS == 343
INT32_MAX == 2147483647

VARIABLES
    ntask_list,     \* NTask::ntask_list: sequence of object addresses
    identifier,     \* NTask::identifier of every constructed object
    live,           \* objects constructed and not yet destroyed
    last,           \* the constructor, destructor or send call that ran last
    notification_queue,     \* NTask::notification_queue of each actor
    receiving_buff,         \* RTask::receiving_buff: items not yet received
    borrowed,               \* items received from it and not yet returned
    mutex_receiving_buff,   \* RTask::mutex_receiving_buff: holder or NULL
    pc,             \* where each thread stands
    loc,            \* sendDataTo: parameters and locals of each thread's call
    wq,             \* WorkQueue::run: notif, item, ret_data, size
    rt,             \* reply target's thread: notification and buffer in hand
    jobs,           \* history: the calls made by the clients, with results
    execLog,        \* history: jobs in the order their function was invoked
    notifLog,       \* history: calls in the order their notification
                    \* entered the work queue's mailbox
    rtLog,          \* history: what the reply target's thread received
    workQueueLength,    \* the workQueueLength the WorkQueue was constructed with
    m_handle,       \* Task::m_handle: a scheduler task, or NULL
    m_running,      \* Task::m_running
    threads,        \* the scheduler's tasks created by Task::start and not
                    \* deleted: where each stands in runTask, and whether
                    \* it is suspended
    state,          \* Ultrasound_struct_t::state
    error_count,    \* Ultrasound_struct_t::error_count (uint8_t)
    last_measure,   \* Ultrasound_struct_t::last_measure
    time_trig_start,    \* Ultrasound_struct_t::time_trig_start
    timer,          \* the one-shot esp timer is armed
    gpio_trig,      \* level driven on the trigger pin
    gpio_echo,      \* echo pin: its level, interrupt enable and type
    job,            \* where ultrasound_periodic_job stands
    cycle,          \* history: what happened since the last trigger pulse
    onRead          \* history: the last invocation of the callback

dirvars == <<ntask_list, identifier, live, last>>
chanvars == <<notification_queue, receiving_buff, borrowed,
              mutex_receiving_buff, pc, loc, wq, rt, jobs, execLog,
              notifLog, rtLog>>
taskvars == <<m_handle, m_running, threads>>
sensorvars == <<state, error_count, last_measure, time_trig_start, timer,
                gpio_trig, gpio_echo, job, cycle, onRead>>
\* what the operations of the directory and of the channels leave alone
othervars == <<workQueueLength, taskvars, sensorvars>>
vars == <<ntask_list, identifier, live, last, notification_queue,
          receiving_buff, borrowed, mutex_receiving_buff, pc, loc, wq, rt,
          jobs, execLog, notifLog, rtLog, workQueueLength, m_handle,
          m_running, threads, state, error_count, last_measure,
          time_trig_start, timer, gpio_trig, gpio_echo, job, cycle, onRead>>

(***************************************************************************)
(* Task::Task, Task.cpp:13-22: no scheduler task yet.                      *)
(***************************************************************************)
InitTask ==
    /\ m_handle = NULL
    /\ m_running = FALSE
    /\ threads = <<>>

(***************************************************************************)
(* Ultrasound_Init, ultrasound.c:53-152: the structure zeroed, the echo    *)
(* interrupt disabled, the timer created and not started.                  *)
(***************************************************************************)
NoPulse == [pulse |-> FALSE, callbacks |-> 0, errors |-> 0]

NoRead == [from |-> "none", state |-> ULTRASOUND_STATE_INIT,
           intr_enabled |-> FALSE, intr_type |-> "DISABLE",
           measured |-> FALSE]

InitSensor ==
    /\ state = ULTRASOUND_STATE_INIT
    /\ error_count = 0
    /\ last_measure = [timestamp_us |-> 0, distance_mm |-> INT32_MAX]
    /\ time_trig_start = 0
    /\ timer = FALSE
    /\ gpio_trig = 0
    /\ gpio_echo = [level |-> 0, intr_enabled |-> FALSE, intr_type |-> "DISABLE"]
    /\ job = "idle"
    /\ cycle = NoPulse
    /\ onRead = NoRead

(***************************************************************************)
(* Identifier_t: union of {uint8_t type; uint8_t ID} and uint16_t w_id.    *)
(* The target is little-endian: type is the low byte of w_id.              *)
(***************************************************************************)
Ident(t, i) == [type |-> t, ID |-> i]
W_id(ident) == ident.type + 256 * ident.ID

\* object addresses
PreObj == 1..PreLoad
DynObj == (PreLoad + 1)..(PreLoad + NumDyn)
\* type given to the constructor (char ntype stored into uint8_t type)
PreType == 0
NTypes == {0, 1}

(***************************************************************************)
(* NTask::isIDTaken: linear scan of ntask_list comparing w_id. `keys` is   *)
(* the set of w_id values the scan meets, TakenKeys below.                 *)
(***************************************************************************)
TakenKeys == {W_id(identifier[ntask_list[i]]) : i \in 1..Len(ntask_list)}

isIDTaken_AnyType(keys, ident) == \E k \in keys : k \div 256 = ident.ID

isIDTaken(keys, ident) == W_id(ident) \in keys

(***************************************************************************)
(* NTask::getIDnotTaken: for (ID = NTASK_ID_STARTING; ID < 255; ID++)      *)
(* return the first ID not taken; 255 when the loop ends.                  *)
(***************************************************************************)
\* the value of ID when the loop stops: the first candidate not taken, or the
\* limit itself when every candidate is taken
getIDloop(t, from) ==
    LET keys == TakenKeys
        free == {id \in from..(NTASK_ID_LIMIT - 1) : ~isIDTaken(keys, Ident(t, id))}
    IN  IF free = {} THEN NTASK_ID_LIMIT
        ELSE CHOOSE id \in free : \A j \in free : id <= j

getIDnotTaken(t) == getIDloop(t, NTASK_ID_STARTING)

(***************************************************************************)
(* NTask::NTask: assign the identifier, push this on ntask_list.           *)
(***************************************************************************)
NTaskCtor(o, ntype) ==
    /\ o \notin live
    /\ LET id == getIDnotTaken(ntype) IN
       identifier' = [x \in live \cup {o} |->
                        IF x = o THEN Ident(ntype, id) ELSE identifier[x]]
    /\ ntask_list' = Append(ntask_list, o)
    /\ live' = live \cup {o}
    /\ last' = [op |-> "ctor", obj |-> o, key |-> W_id(identifier'[o])]
    /\ UNCHANGED chanvars
    /\ UNCHANGED othervars

(***************************************************************************)
(* NTask::~NTask: find the first entry equal to this, erase it if found.   *)
(***************************************************************************)
findThis_ByKey(o, from) ==
    LET hits == {i \in from..Len(ntask_list) :
                    W_id(identifier[ntask_list[i]]) = W_id(identifier[o])}
    IN  IF hits = {} THEN Len(ntask_list) + 1
        ELSE CHOOSE i \in hits : \A j \in hits : i <= j

\* while (i < size && this != ntask_list.at(i)) i++ : the index at which the
\* scan from `from` stops
findThis(o, from) ==
    LET hits == {i \in from..Len(ntask_list) : ntask_list[i] = o}
    IN  IF hits = {} THEN Len(ntask_list) + 1
        ELSE CHOOSE i \in hits : \A j \in hits : i <= j

eraseAt_Front(l, i) == Tail(l)

eraseAt(l, i) == SubSeq(l, 1, i - 1) \o SubSeq(l, i + 1, Len(l))

NTaskDtor(o) ==
    /\ o \in live
    /\ LET i == findThis(o, 1) IN
       ntask_list' = IF i <= Len(ntask_list) THEN eraseAt(ntask_list, i)
                     ELSE ntask_list
    /\ last' = [op |-> "dtor", obj |-> o, key |-> W_id(identifier[o])]
    /\ identifier' = [x \in live \ {o} |-> identifier[x]]
    /\ live' = live \ {o}
    /\ UNCHANGED chanvars
    /\ UNCHANGED othervars

(***************************************************************************)
(* NTask::getNTaskByIdentifier: first entry whose w_id matches, or null.   *)
(***************************************************************************)
\* while (i < size && ntask_list[i]->identifier.w_id != identifier.w_id) i++
findKey(key, from) ==
    LET hits == {i \in from..Len(ntask_list) :
                    W_id(identifier[ntask_list[i]]) = key}
    IN  IF hits = {} THEN Len(ntask_list) + 1
        ELSE CHOOSE i \in hits : \A j \in hits : i <= j

getNTaskByIdentifier_First(key) == ntask_list[1]

getNTaskByIdentifier(key) ==
    LET i == findKey(key, 1) IN
    IF i = Len(ntask_list) + 1 THEN NULL ELSE ntask_list[i]

(***************************************************************************)
(* NTask::getNTaskByType: the entries whose type matches, in list order.   *)
(***************************************************************************)
getNTaskByType_All(t) == ntask_list

getNTaskByType(t) ==
    LET hasType(o) == identifier[o].type = t IN SelectSeq(ntask_list, hasType)

(***************************************************************************)
(* The actors of the channel specifications, by object address: a work     *)
(* queue, a reply target (an RTask) and two client RTasks. Each actor has  *)
(* its own thread, named by the same address.                              *)
(***************************************************************************)
WQ == 1
RT == 2
CA == 3
CB == 4
Clients == {CA, CB}
Actors == {WQ, RT, CA, CB}
\* the threads that call sendDataTo
Senders == {WQ, CA, CB}

\* the directory and identifiers after WorkQueue(), RTask(1), RTask(2),
\* RTask(2) were constructed in this order
BootList == <<WQ, RT, CA, CB>>
BootIdentifier ==
    [a \in Actors |->
        IF a = WQ THEN Ident(NTASK_TYPE_NOTIF_WORK_QUEU, 1)
        ELSE IF a = RT THEN Ident(1, 1)
        ELSE IF a = CA THEN Ident(2, 1) ELSE Ident(2, 2)]

(***************************************************************************)
(* Notification_t: union of {Identifier_t Identifier; uint16_t value} and  *)
(* uint32_t d0. Little-endian: the identifier is the low half of d0, the   *)
(* value the high half. A queue entry holds the word d0, and for the       *)
(* history the call that sent it, the operation, and whether the call's    *)
(* payload went into the ring buffer ("pushed", "missing", or "none" for a *)
(* notification sent without a payload).                                   *)
(***************************************************************************)
ToWord(ident, value) == W_id(ident) + 65536 * value
NotifValue_Low(d0) == d0 % 65536

NotifValue(d0) == d0 \div 65536
NotifIdentifier(d0) == Ident(d0 % 256, (d0 \div 256) % 256)

TO_NOTIFICATION_Unstamped(self, X) == ToWord(Ident(0, 0), X)

TO_NOTIFICATION(self, X) == ToWord(identifier[self], X)

\* notification values the clients and jobs use towards the reply target:
\* DATA_READY announces a payload, JOB_DONE comes alone
DATA_READY == 2
JOB_DONE == 3

(***************************************************************************)
(* Sizes of the queues and ring buffers, from the constructors.            *)
(***************************************************************************)
QueueLength(d) == IF d = WQ THEN workQueueLength ELSE RTQueueLength

RingSize(d) ==
    IF d = WQ THEN (SizeofWorkItem + 8) * workQueueLength ELSE RTRingSize

\* esp ring buffer, no-split: an item takes its size rounded up to 4 bytes
\* plus the header; an item larger than half the buffer less the header is
\* refused; the space of an item is free again once it is returned
ItemSpace(size) == ((size + 3) \div 4) * 4 + RingItemHeader

MaxItemSize(d) == RingSize(d) \div 2 - RingItemHeader

RECURSIVE SpaceOf(_)
SpaceOf(items) ==
    IF items = <<>> THEN 0 ELSE ItemSpace(Head(items).size) + SpaceOf(Tail(items))

RingUsed(d) == SpaceOf(receiving_buff[d]) + SpaceOf(borrowed[d])

RingFits(d, size) ==
    size <= MaxItemSize(d) /\ RingUsed(d) + ItemSpace(size) <= RingSize(d)

\* a pointer to bytes: the memory it points to, or the null pointer
Ptr(bytes) == [ptr |-> 1, bytes |-> bytes]
NullPtr == [ptr |-> NULL, bytes |-> 0]

(***************************************************************************)
(* Work functions and work items.                                          *)
(***************************************************************************)
\* WorkFunction: "twice" returns a heap buffer of 4 bytes holding 2 * args,
\* "big" one of RTRingSize bytes, "empty" a heap buffer and a size of 0,
\* "unsized" nullptr and a size of 4, "nothing" nullptr and a size of 0
ApplyWork(f, args) ==
    IF f = "twice" THEN [data |-> Ptr(2 * args), size |-> 4]
    ELSE IF f = "big" THEN [data |-> Ptr(args), size |-> RTRingSize]
    ELSE IF f = "empty" THEN [data |-> Ptr(args), size |-> 0]
    ELSE IF f = "unsized" THEN [data |-> NullPtr, size |-> 4]
    ELSE [data |-> NullPtr, size |-> 0]

WorkItems ==
    {[work_args |-> 21, work_function |-> "twice", returning_task |-> RT,
      notif_value |-> DATA_READY],
     [work_args |-> 21, work_function |-> "nothing", returning_task |-> RT,
      notif_value |-> JOB_DONE]}

NoCall ==
    [destination |-> NULL, data |-> NullPtr, size |-> 0, ticktowait |-> 0,
     usenotif |-> FALSE, notification |-> 0, t |-> FALSE, call |-> 0,
     op |-> "none"]

NoItem ==
    [work_args |-> 0, work_function |-> "none", returning_task |-> NULL,
     notif_value |-> 0]

NoWork ==
    [notif |-> 0, item |-> NoItem, job |-> 0, ret_data |-> NullPtr, size |-> 0]

NoRecv == [notif |-> 0, call |-> 0, payload |-> "none", buf |-> NULL]

InitChan ==
    /\ notification_queue = [a \in Actors |-> <<>>]
    /\ receiving_buff = [a \in Actors |-> <<>>]
    /\ borrowed = [a \in Actors |-> <<>>]
    /\ mutex_receiving_buff = [a \in Actors |-> NULL]
    /\ pc = [a \in Actors |->
               IF a = WQ THEN "wq_wait" ELSE IF a = RT THEN "rt_wait" ELSE "idle"]
    /\ loc = [a \in Senders |-> NoCall]
    /\ wq = NoWork
    /\ rt = NoRecv
    /\ jobs = <<>>
    /\ execLog = <<>>
    /\ notifLog = <<>>
    /\ rtLog = <<>>

(***************************************************************************)
(* RTask::sendDataTo, step by step. Entry: the null checks of line 20.     *)
(* `op` and `call` record for the history which call is running.           *)
(***************************************************************************)
Return_Success(th, r) ==
    IF th = WQ
    THEN /\ pc' = [pc EXCEPT ![th] = "wq_free"]
         /\ jobs' = jobs
    ELSE /\ pc' = [pc EXCEPT ![th] = "idle"]
         /\ jobs' = [jobs EXCEPT ![loc[th].call].ret = "pdTRUE"]

Return_NoFree(th, r) ==
    IF th = WQ
    THEN /\ pc' = [pc EXCEPT ![th] = "wq_wait"]
         /\ jobs' = jobs
    ELSE /\ pc' = [pc EXCEPT ![th] = "idle"]
         /\ jobs' = [jobs EXCEPT ![loc[th].call].ret =
                                    IF r THEN "pdTRUE" ELSE "pdFALSE"]

\* the caller's continuation after sendDataTo returned r
Return(th, r) ==
    IF th = WQ
    THEN /\ pc' = [pc EXCEPT ![th] = "wq_free"]
         /\ jobs' = jobs
    ELSE /\ pc' = [pc EXCEPT ![th] = "idle"]
         /\ jobs' = [jobs EXCEPT ![loc[th].call].ret =
                                    IF r THEN "pdTRUE" ELSE "pdFALSE"]

sendDataTo(th, destination, data, size, ticktowait, usenotif, notification, op, call) ==
    IF destination = NULL \/ data.ptr = NULL
    THEN /\ loc' = loc
         /\ pc' = [pc EXCEPT ![th] = IF th = WQ THEN "wq_free" ELSE "idle"]
    ELSE /\ loc' = [loc EXCEPT ![th] =
                      [destination |-> destination, data |-> data, size |-> size,
                       ticktowait |-> ticktowait, usenotif |-> usenotif,
                       notification |-> notification, t |-> FALSE,
                       call |-> call, op |-> op]]
         /\ pc' = [pc EXCEPT ![th] = "sd_take"]

\* xSemaphoreTake can take the mutex
SemaphoreFree_Always(d) == TRUE

SemaphoreFree(d) == mutex_receiving_buff[d] = NULL

\* line 22: xSemaphoreTake succeeds
SD_Take(th) ==
    /\ pc[th] = "sd_take"
    /\ SemaphoreFree(loc[th].destination)
    /\ mutex_receiving_buff' =
          [mutex_receiving_buff EXCEPT ![loc[th].destination] = th]
    /\ pc' = [pc EXCEPT ![th] = "sd_ring"]
    /\ UNCHANGED dirvars
    /\ UNCHANGED othervars
    /\ UNCHANGED <<notification_queue, receiving_buff, borrowed, loc, wq, rt,
                   jobs, execLog, notifLog, rtLog>>

\* line 22, 35-36: the mutex stayed taken for ticktowait; return pdFALSE
SD_TakeTimeout(th) ==
    /\ pc[th] = "sd_take"
    /\ ~SemaphoreFree(loc[th].destination)
    /\ loc[th].ticktowait # portMAX_DELAY
    /\ Return(th, FALSE)
    /\ loc' = [loc EXCEPT ![th] = NoCall]
    /\ UNCHANGED dirvars
    /\ UNCHANGED othervars
    /\ UNCHANGED <<notification_queue, receiving_buff, borrowed,
                   mutex_receiving_buff, wq, rt, execLog, notifLog, rtLog>>

AfterRing_Give(usenotif) == "sd_give"

\* where sendDataTo goes after xRingbufferSend (line 26)
AfterRing(usenotif) == IF usenotif THEN "sd_notif" ELSE "sd_give"

\* line 24: xRingbufferSend copies the item into the ring buffer
SD_RingSend(th) ==
    /\ pc[th] = "sd_ring"
    /\ LET d == loc[th].destination IN
       /\ RingFits(d, loc[th].size)
       /\ receiving_buff' =
            [receiving_buff EXCEPT ![d] =
               Append(@, [data |-> loc[th].data, size |-> loc[th].size,
                          call |-> loc[th].call])]
    /\ loc' = [loc EXCEPT ![th].t = TRUE]
    /\ pc' = [pc EXCEPT ![th] = AfterRing(loc[th].usenotif)]
    /\ UNCHANGED dirvars
    /\ UNCHANGED othervars
    /\ UNCHANGED <<notification_queue, borrowed, mutex_receiving_buff, wq, rt,
                   jobs, execLog, notifLog, rtLog>>

\* line 24: xRingbufferSend returns pdFALSE: the item is larger than the
\* buffer accepts, or no space came free within ticktowait
SD_RingFail(th) ==
    /\ pc[th] = "sd_ring"
    /\ LET d == loc[th].destination IN
       /\ ~RingFits(d, loc[th].size)
       /\ \/ loc[th].size > MaxItemSize(d)
          \/ loc[th].ticktowait # portMAX_DELAY
    /\ loc' = [loc EXCEPT ![th].t = FALSE]
    /\ pc' = [pc EXCEPT ![th] = AfterRing(loc[th].usenotif)]
    /\ UNCHANGED dirvars
    /\ UNCHANGED othervars
    /\ UNCHANGED <<notification_queue, receiving_buff, borrowed,
                   mutex_receiving_buff, wq, rt, jobs, execLog, notifLog, rtLog>>

\* line 30: sendNotificationTo(destination, notification, portMAX_DELAY,
\* queueSEND_TO_BACK): waits for room in the queue
SD_Notify(th) ==
    /\ pc[th] = "sd_notif"
    /\ LET d == loc[th].destination IN
       /\ Len(notification_queue[d]) < QueueLength(d)
       /\ notification_queue' =
            [notification_queue EXCEPT ![d] =
               Append(@, [d0 |-> loc[th].notification, call |-> loc[th].call,
                          op |-> loc[th].op,
                          payload |-> IF loc[th].t THEN "pushed" ELSE "missing"])]
       /\ notifLog' = IF d = WQ THEN Append(notifLog, loc[th].call) ELSE notifLog
    /\ pc' = [pc EXCEPT ![th] = "sd_give"]
    /\ UNCHANGED dirvars
    /\ UNCHANGED othervars
    /\ UNCHANGED <<receiving_buff, borrowed, mutex_receiving_buff, loc, wq, rt,
                   jobs, execLog, rtLog>>

\* lines 32-33: xSemaphoreGive, return t
SD_Give(th) ==
    /\ pc[th] = "sd_give"
    /\ mutex_receiving_buff' =
          [mutex_receiving_buff EXCEPT ![loc[th].destination] = NULL]
    /\ Return(th, loc[th].t)
    /\ loc' = [loc EXCEPT ![th] = NoCall]
    /\ UNCHANGED dirvars
    /\ UNCHANGED othervars
    /\ UNCHANGED <<notification_queue, receiving_buff, borrowed, wq, rt,
                   execLog, notifLog, rtLog>>

(***************************************************************************)
(* The calls of the client threads.                                        *)
(***************************************************************************)
Ticks == {0, portMAX_DELAY}

\* WorkQueue::sendWork(item): sendDataTo(this, &item, sizeof(item),
\* portMAX_DELAY, true, (Notification_t){.d0 = NOTIFICATION_WORK_IN_QUEUE})
sendWork(c, item) ==
    /\ pc[c] = "idle"
    /\ Len(jobs) < MaxCalls
    /\ jobs' = Append(jobs, [op |-> "sendWork", item |-> item, ret |-> "pending"])
    /\ sendDataTo(c, WQ, Ptr(item), SizeofWorkItem, portMAX_DELAY, TRUE,
                  NOTIFICATION_WORK_IN_QUEUE, "sendWork", Len(jobs) + 1)
    /\ UNCHANGED dirvars
    /\ UNCHANGED othervars
    /\ UNCHANGED <<notification_queue, receiving_buff, borrowed,
                   mutex_receiving_buff, wq, rt, execLog, notifLog, rtLog>>

\* RTask::sendDataTo(dest, data, size, ticktowait, notif_value) of a client
\* handing a work item to the work queue with the work notification value
sendJob(c, item, ticktowait) ==
    /\ pc[c] = "idle"
    /\ Len(jobs) < MaxCalls
    /\ jobs' = Append(jobs, [op |-> "sendDataTo", item |-> item, ret |-> "pending"])
    /\ sendDataTo(c, WQ, Ptr(item), SizeofWorkItem, ticktowait, TRUE,
                  TO_NOTIFICATION(c, NOTIFICATION_WORK_IN_QUEUE), "sendDataTo",
                  Len(jobs) + 1)
    /\ UNCHANGED dirvars
    /\ UNCHANGED othervars
    /\ UNCHANGED <<notification_queue, receiving_buff, borrowed,
                   mutex_receiving_buff, wq, rt, execLog, notifLog, rtLog>>

\* payload sizes the clients send to the reply target: one that its ring
\* buffer accepts and one that it refuses
DataSizes == {4, RTRingSize}

\* RTask::sendDataTo(dest, data, size, ticktowait, notif_value) of a client
\* sending bytes to the reply target; the bytes are 100 + the call's number
sendBytes(c, size, ticktowait) ==
    /\ pc[c] = "idle"
    /\ Len(jobs) < MaxCalls
    /\ jobs' = Append(jobs, [op |-> "sendDataTo", item |-> NoItem, ret |-> "pending"])
    /\ sendDataTo(c, RT, Ptr(100 + Len(jobs) + 1), size, ticktowait, TRUE,
                  TO_NOTIFICATION(c, DATA_READY), "sendDataTo", Len(jobs) + 1)
    /\ UNCHANGED dirvars
    /\ UNCHANGED othervars
    /\ UNCHANGED <<notification_queue, receiving_buff, borrowed,
                   mutex_receiving_buff, wq, rt, execLog, notifLog, rtLog>>

(***************************************************************************)
(* WorkQueue::run, the loop of the work queue's thread.                    *)
(***************************************************************************)
\* lines 29-33, 59: receiveNotification(portMAX_DELAY), then the test of
\* notif.value; any other value is logged and the loop starts over
WQ_ReceiveNotification ==
    /\ pc[WQ] = "wq_wait"
    /\ notification_queue[WQ] # <<>>
    /\ LET n == Head(notification_queue[WQ]) IN
       IF NotifValue(n.d0) = NOTIFICATION_WORK_IN_QUEUE
       THEN /\ pc' = [pc EXCEPT ![WQ] = "wq_data"]
            /\ wq' = [NoWork EXCEPT !.notif = n.d0]
       ELSE /\ pc' = pc
            /\ wq' = NoWork
    /\ notification_queue' = [notification_queue EXCEPT ![WQ] = Tail(@)]
    /\ UNCHANGED dirvars
    /\ UNCHANGED othervars
    /\ UNCHANGED <<receiving_buff, borrowed, mutex_receiving_buff, loc, rt,
                   jobs, execLog, notifLog, rtLog>>

\* lines 35-38, 54: receiveData(&size, portMAX_DELAY); a buffer of the size
\* of a WorkItem is copied and returned; any other size is logged, and the
\* buffer is not returned
WQ_ReceiveData ==
    /\ pc[WQ] = "wq_data"
    /\ receiving_buff[WQ] # <<>>
    /\ LET it == Head(receiving_buff[WQ]) IN
       IF it.size = SizeofWorkItem
       THEN /\ wq' = [wq EXCEPT !.item = it.data.bytes, !.job = it.call,
                                 !.size = it.size]
            /\ borrowed' = borrowed
            /\ pc' = [pc EXCEPT ![WQ] = "wq_exec"]
       ELSE /\ wq' = NoWork
            /\ borrowed' = [borrowed EXCEPT ![WQ] = Append(@, it)]
            /\ pc' = [pc EXCEPT ![WQ] = "wq_wait"]
    /\ receiving_buff' = [receiving_buff EXCEPT ![WQ] = Tail(@)]
    /\ UNCHANGED dirvars
    /\ UNCHANGED othervars
    /\ UNCHANGED <<notification_queue, mutex_receiving_buff, loc, rt, jobs,
                   execLog, notifLog, rtLog>>

\* lines 41-46: the work function runs; with a result, sendDataTo towards
\* the returning task starts; without, the notification alone is next
WQ_Exec ==
    /\ pc[WQ] = "wq_exec"
    /\ execLog' = Append(execLog, wq.job)
    /\ LET res == ApplyWork(wq.item.work_function, wq.item.work_args) IN
       /\ wq' = [wq EXCEPT !.ret_data = res.data, !.size = res.size]
       /\ IF res.size > 0 /\ res.data.ptr # NULL
          THEN sendDataTo(WQ, wq.item.returning_task, res.data, res.size,
                          portMAX_DELAY, TRUE,
                          TO_NOTIFICATION(WQ, wq.item.notif_value), "reply",
                          wq.job)
          ELSE /\ pc' = [pc EXCEPT ![WQ] = "wq_notify"]
               /\ loc' = loc
    /\ UNCHANGED dirvars
    /\ UNCHANGED othervars
    /\ UNCHANGED <<notification_queue, receiving_buff, borrowed,
                   mutex_receiving_buff, rt, jobs, notifLog, rtLog>>

\* line 47: free(ret_data) after sendDataTo returned
WQ_Free ==
    /\ pc[WQ] = "wq_free"
    /\ wq' = NoWork
    /\ pc' = [pc EXCEPT ![WQ] = "wq_wait"]
    /\ UNCHANGED dirvars
    /\ UNCHANGED othervars
    /\ UNCHANGED <<notification_queue, receiving_buff, borrowed,
                   mutex_receiving_buff, loc, rt, jobs, execLog, notifLog, rtLog>>

\* line 51: sendNotificationTo(item.returning_task, item.notif_value,
\* portMAX_DELAY): to the back of the queue, waiting for room
WQ_Notify ==
    /\ pc[WQ] = "wq_notify"
    /\ LET d == wq.item.returning_task IN
       IF d = NULL
       THEN notification_queue' = notification_queue
       ELSE /\ Len(notification_queue[d]) < QueueLength(d)
            /\ notification_queue' =
                 [notification_queue EXCEPT ![d] =
                    Append(@, [d0 |-> TO_NOTIFICATION(WQ, wq.item.notif_value),
                               call |-> wq.job, op |-> "reply",
                               payload |-> "none"])]
    /\ wq' = NoWork
    /\ pc' = [pc EXCEPT ![WQ] = "wq_wait"]
    /\ UNCHANGED dirvars
    /\ UNCHANGED othervars
    /\ UNCHANGED <<receiving_buff, borrowed, mutex_receiving_buff, loc, rt,
                   jobs, execLog, notifLog, rtLog>>

(***************************************************************************)
(* The reply target's thread: it waits for a notification, and on          *)
(* DATA_READY takes one item from its ring buffer and returns it.          *)
(***************************************************************************)
\* NTask::receiveNotification(portMAX_DELAY)
RT_ReceiveNotification ==
    /\ pc[RT] = "rt_wait"
    /\ notification_queue[RT] # <<>>
    /\ LET n == Head(notification_queue[RT]) IN
       /\ rt' = [notif |-> n.d0, call |-> n.call, payload |-> n.payload,
                 buf |-> NULL]
       /\ rtLog' = Append(rtLog, [what |-> "notification", word |-> n.d0,
                                  size |-> 0, call |-> n.call])
       /\ pc' = [pc EXCEPT ![RT] =
                   IF NotifValue(n.d0) = DATA_READY THEN "rt_data" ELSE "rt_wait"]
    /\ notification_queue' = [notification_queue EXCEPT ![RT] = Tail(@)]
    /\ UNCHANGED dirvars
    /\ UNCHANGED othervars
    /\ UNCHANGED <<receiving_buff, borrowed, mutex_receiving_buff, loc, wq,
                   jobs, execLog, notifLog>>

\* RTask::receiveData(&size): xRingbufferReceive with no wait
RT_ReceiveData ==
    /\ pc[RT] = "rt_data"
    /\ IF receiving_buff[RT] = <<>>
       THEN /\ pc' = [pc EXCEPT ![RT] = "rt_wait"]
            /\ rt' = NoRecv
            /\ UNCHANGED <<receiving_buff, borrowed, rtLog>>
       ELSE LET it == Head(receiving_buff[RT]) IN
            /\ receiving_buff' = [receiving_buff EXCEPT ![RT] = Tail(@)]
            /\ borrowed' = [borrowed EXCEPT ![RT] = Append(@, it)]
            /\ rt' = [rt EXCEPT !.buf = it]
            /\ rtLog' = Append(rtLog, [what |-> "data", word |-> it.data.bytes,
                                       size |-> it.size, call |-> it.call])
            /\ pc' = [pc EXCEPT ![RT] = "rt_return"]
    /\ UNCHANGED dirvars
    /\ UNCHANGED othervars
    /\ UNCHANGED <<notification_queue, mutex_receiving_buff, loc, wq, jobs,
                   execLog, notifLog>>

RT_ReturnData_Keep ==
    /\ pc[RT] = "rt_return"
    /\ rt' = NoRecv
    /\ pc' = [pc EXCEPT ![RT] = "rt_wait"]
    /\ UNCHANGED dirvars
    /\ UNCHANGED othervars
    /\ UNCHANGED <<notification_queue, receiving_buff, borrowed,
                   mutex_receiving_buff, loc, wq, jobs, execLog, notifLog, rtLog>>

\* RTask::returnData(data): vRingbufferReturnItem
RT_ReturnData ==
    /\ pc[RT] = "rt_return"
    /\ borrowed' = [borrowed EXCEPT ![RT] = Tail(@)]
    /\ rt' = NoRecv
    /\ pc' = [pc EXCEPT ![RT] = "rt_wait"]
    /\ UNCHANGED dirvars
    /\ UNCHANGED othervars
    /\ UNCHANGED <<notification_queue, receiving_buff, mutex_receiving_buff,
                   loc, wq, jobs, execLog, notifLog, rtLog>>

(***************************************************************************)
(* The specifications of the channels.                                     *)
(***************************************************************************)
InitBoot ==
    /\ ntask_list = BootList
    /\ identifier = BootIdentifier
    /\ live = Actors
    /\ last = [op |-> "none", obj |-> NULL, key |-> 0]
    /\ InitChan
    /\ workQueueLength = WorkQueueLength
    /\ InitTask
    /\ InitSensor

\* clients sending bytes to the reply target
NextChan ==
    \/ \E c \in Clients, size \in DataSizes, k \in Ticks : sendBytes(c, size, k)
    \/ \E th \in Clients : SD_Take(th)
    \/ \E th \in Clients : SD_TakeTimeout(th)
    \/ \E th \in Clients : SD_RingSend(th)
    \/ \E th \in Clients : SD_RingFail(th)
    \/ \E th \in Clients : SD_Notify(th)
    \/ \E th \in Clients : SD_Give(th)
    \/ RT_ReceiveNotification
    \/ RT_ReceiveData
    \/ RT_ReturnData

SpecChan == InitBoot /\ [][NextChan]_vars

\* client CA submitting work with sendWork, client CB sending work items
\* with sendDataTo, the work queue's thread, the reply target
Next ==
    \/ \E item \in WorkItems : sendWork(CA, item)
    \/ \E item \in WorkItems, k \in Ticks : sendJob(CB, item, k)
    \/ \E th \in Senders : SD_Take(th)
    \/ \E th \in Senders : SD_TakeTimeout(th)
    \/ \E th \in Senders : SD_RingSend(th)
    \/ \E th \in Senders : SD_RingFail(th)
    \/ \E th \in Senders : SD_Notify(th)
    \/ \E th \in Senders : SD_Give(th)
    \/ WQ_ReceiveNotification
    \/ WQ_ReceiveData
    \/ WQ_Exec
    \/ WQ_Free
    \/ WQ_Notify
    \/ RT_ReceiveNotification
    \/ RT_ReceiveData
    \/ RT_ReturnData

Spec == InitBoot /\ [][Next]_vars

(***************************************************************************)
(* Claims about sendDataTo, checked under SpecChan.                        *)
(***************************************************************************)
\* C1: data before notification: when the destination's receiveNotification
\* has returned the notification of a sendDataTo call whose payload went
\* into the ring buffer, that payload is in the ring buffer, so the
\* receiveData that follows does not find the buffer empty.
C1_DataBeforeNotification ==
    (pc[RT] = "rt_data" /\ rt.payload = "pushed") =>
        \E i \in 1..Len(receiving_buff[RT]) : receiving_buff[RT][i].call = rt.call

\* C2: no sendDataTo call puts its notification into the destination's
\* queue without its payload being in the ring buffer, whether the push
\* succeeded, timed out or was refused.
C2_NoNotificationWithoutPayload ==
    \A d \in Actors : \A i \in 1..Len(notification_queue[d]) :
        notification_queue[d][i].payload # "missing"

(***************************************************************************)
(* Claims about the work queue, checked under Spec.                        *)
(***************************************************************************)
Count(seq, Test(_)) == Cardinality({i \in 1..Len(seq) : Test(seq[i])})

\* nothing is in progress and nothing is waiting in a mailbox
Quiet ==
    /\ \A c \in Clients : pc[c] = "idle"
    /\ pc[WQ] = "wq_wait" /\ notification_queue[WQ] = <<>>
    /\ pc[RT] = "rt_wait" /\ notification_queue[RT] = <<>>

Executions(j) == LET is(x) == x = j IN Count(execLog, is)

\* notifications from the work queue with the job's reply value that the
\* reply target received for job j
RepliesReceived(j) ==
    LET is(e) == /\ e.what = "notification"
                 /\ e.call = j
                 /\ e.word = ToWord(identifier[WQ], jobs[j].item.notif_value)
    IN  Count(rtLog, is)

\* payloads the reply target received for job j, and those equal to res
PayloadsReceived(j) ==
    LET is(e) == e.what = "data" /\ e.call = j IN Count(rtLog, is)

ResultsReceived(j, res) ==
    LET is(e) == /\ e.what = "data" /\ e.call = j
                 /\ e.word = res.data.bytes /\ e.size = res.size
    IN  Count(rtLog, is)

AcceptedWork(j) == jobs[j].op = "sendWork" /\ jobs[j].ret = "pdTRUE"

ResultOf(j) == ApplyWork(jobs[j].item.work_function, jobs[j].item.work_args)

HasResult(res) == res.data.ptr # NULL /\ res.size # 0

\* C7: a job submitted with sendWork whose function returns a buffer and a
\* size is invoked exactly once, and the reply target receives exactly one
\* notification with the reply value and exactly one payload, equal to the
\* function's result (never more; all of it once the system has come to rest).
C7_WorkWithResult ==
    \A j \in 1..Len(jobs) :
        (AcceptedWork(j) /\ HasResult(ResultOf(j))) =>
            /\ Executions(j) <= 1
            /\ RepliesReceived(j) <= 1
            /\ PayloadsReceived(j) <= 1
            /\ Quiet => /\ Executions(j) = 1
                        /\ RepliesReceived(j) = 1
                        /\ PayloadsReceived(j) = 1
                        /\ ResultsReceived(j, ResultOf(j)) = 1

\* C8: for a job submitted with sendWork whose function returns null or a
\* size of zero, the reply target receives exactly one notification with
\* the reply value and no payload.
C8_WorkWithoutResult ==
    \A j \in 1..Len(jobs) :
        (AcceptedWork(j) /\ ~HasResult(ResultOf(j))) =>
            /\ RepliesReceived(j) <= 1
            /\ PayloadsReceived(j) = 0
            /\ Quiet => RepliesReceived(j) = 1

\* C9: the notification sendWork puts into the queue's own mailbox has the
\* value field the run loop tests for, NOTIFICATION_WORK_IN_QUEUE.
C9_SendWorkIsWorkAvailable ==
    \A i \in 1..Len(notification_queue[WQ]) :
        notification_queue[WQ][i].op = "sendWork" =>
            NotifValue(notification_queue[WQ][i].d0) = NOTIFICATION_WORK_IN_QUEUE

Pos(seq, x) ==
    LET hits == {i \in 1..Len(seq) : seq[i] = x}
    IN  IF hits = {} THEN 0 ELSE CHOOSE i \in hits : \A k \in hits : i <= k

\* the reply for job j has left the work queue: its notification is in the
\* reply target's mailbox or was received from it
ReplySent(j) ==
    \/ \E i \in 1..Len(notification_queue[RT]) :
          notification_queue[RT][i].call = j /\ notification_queue[RT][i].op = "reply"
    \/ \E i \in 1..Len(rtLog) : rtLog[i].what = "notification" /\ rtLog[i].call = j

\* C10: serial FIFO execution: a job function is invoked only when the job
\* invoked before it has run and its reply has been sent, and jobs are
\* invoked in the order in which their notifications entered the mailbox.
C10_SerialFifo ==
    /\ \A i \in 1..(Len(execLog) - 1) : ReplySent(execLog[i])
    /\ \A i, j \in 1..Len(execLog) :
         (i < j /\ Pos(notifLog, execLog[j]) > 0) =>
            /\ 0 < Pos(notifLog, execLog[i])
            /\ Pos(notifLog, execLog[i]) < Pos(notifLog, execLog[j])

\* two jobs sent by different clients were invoked one after the other
C10_Witness ==
    /\ Len(execLog) >= 2
    /\ Pos(notifLog, execLog[2]) > 0
    /\ ReplySent(execLog[2])

(***************************************************************************)
(* The directory alone: constructions and destructions, one at a time.     *)
(***************************************************************************)
\* the directory after k constructions of type PreType at addresses 1..k
Loaded(k) == [i \in 1..k |-> i]

\* objects whose destructor the explored behaviours may run
Destroyable == DynObj \cup {1, PreLoad}

InitDir ==
    /\ \E k \in {0, PreLoad - 1, PreLoad} :
         /\ ntask_list = Loaded(k)
         /\ identifier = [x \in 1..k |-> Ident(PreType, x)]
         /\ live = 1..k
    /\ last = [op |-> "none", obj |-> NULL, key |-> 0]
    /\ InitChan
    /\ workQueueLength = WorkQueueLength
    /\ InitTask
    /\ InitSensor

Construct == \E o \in DynObj, t \in NTypes : NTaskCtor(o, t)

Destroy == \E o \in Destroyable : NTaskDtor(o)

NextDir == Construct \/ Destroy

SpecDir == InitDir /\ [][NextDir]_vars

(***************************************************************************)
(* Claims about the directory, checked under SpecDir.                      *)
(***************************************************************************)
DirEntries == {ntask_list[i] : i \in 1..Len(ntask_list)}

\* C3: identifier uniqueness: no two actors present in the directory share
\* the same (type, id) pair, also when constructions go past the id ceiling.
C3_IdentifierUniqueness == Cardinality(TakenKeys) = Len(ntask_list)

\* C4: the directory holds exactly one entry for each live (constructed and
\* not yet destroyed) actor and none for a destroyed one, so neither lookup
\* returns the actor that was just destroyed.
C4_DirectoryTracksLive ==
    /\ DirEntries = live
    /\ Len(ntask_list) = Cardinality(live)
    /\ last.op = "dtor" =>
         /\ getNTaskByIdentifier(last.key) # last.obj
         /\ \A t \in NTypes :
                LET found == getNTaskByType(t)
                IN  \A i \in 1..Len(found) : found[i] # last.obj

\* a destructor has just removed one of several entries
C4_Witness ==
    /\ last.op = "dtor"
    /\ last.obj \notin live
    /\ Len(ntask_list) >= 2
    /\ ntask_list[1] > last.obj

\* C5: lookupByIdentifier of an actor's identifier returns that actor right
\* after its construction and none right after its destruction.
C5_LookupConsistency ==
    /\ last.op = "ctor" => getNTaskByIdentifier(last.key) = last.obj
    /\ last.op = "dtor" => getNTaskByIdentifier(last.key) = NULL

\* C6: a construction gets the smallest id from 1 that no other live actor
\* of the same type holds, never 0, and gets 255 exactly when the ids 1..254
\* of that type are all held.
C6_SmallestFreeId ==
    last.op = "ctor" =>
        LET o == last.obj
            same == {x \in live \ {o} : identifier[x].type = identifier[o].type}
            held == {identifier[x].ID : x \in same}
            free == (1..254) \ held
            id == identifier[o].ID
        IN  /\ id # 0
            /\ free # {} => (id \in free /\ \A j \in free : id <= j)
            /\ free = {} <=> id = 255

\* a construction found the ids 1..254 of its type all held
C6_Witness ==
    /\ last.op = "ctor"
    /\ identifier[last.obj].ID = 255
    /\ Cardinality({x \in live : identifier[x].type = identifier[last.obj].type}) = 255

(***************************************************************************)
(* A payload that is no WorkItem sent to the work queue under the work     *)
(* notification value.                                                     *)
(***************************************************************************)
\* the size of the payload: any size other than sizeof(WorkItem)
BadSize == 4

\* RTask::sendDataTo(dest, data, size, ticktowait, notif_value) of a client
\* sending BadSize bytes to the work queue with NOTIFICATION_WORK_IN_QUEUE
sendBad(c, ticktowait) ==
    /\ pc[c] = "idle"
    /\ Len(jobs) < MaxCalls
    /\ jobs' = Append(jobs, [op |-> "sendBad", item |-> NoItem, ret |-> "pending"])
    /\ sendDataTo(c, WQ, Ptr(100 + Len(jobs) + 1), BadSize, ticktowait, TRUE,
                  TO_NOTIFICATION(c, NOTIFICATION_WORK_IN_QUEUE), "sendBad",
                  Len(jobs) + 1)
    /\ UNCHANGED dirvars
    /\ UNCHANGED othervars
    /\ UNCHANGED <<notification_queue, receiving_buff, borrowed,
                   mutex_receiving_buff, wq, rt, execLog, notifLog, rtLog>>

\* client CA submitting work with sendWork, client CB sending malformed
\* payloads, the work queue's thread, the reply target
NextBad ==
    \/ \E item \in WorkItems : sendWork(CA, item)
    \/ \E k \in Ticks : sendBad(CB, k)
    \/ \E th \in Senders : SD_Take(th)
    \/ \E th \in Senders : SD_TakeTimeout(th)
    \/ \E th \in Senders : SD_RingSend(th)
    \/ \E th \in Senders : SD_RingFail(th)
    \/ \E th \in Senders : SD_Notify(th)
    \/ \E th \in Senders : SD_Give(th)
    \/ WQ_ReceiveNotification
    \/ WQ_ReceiveData
    \/ WQ_Exec
    \/ WQ_Free
    \/ WQ_Notify
    \/ RT_ReceiveNotification
    \/ RT_ReceiveData
    \/ RT_ReturnData

SpecBad == InitBoot /\ [][NextBad]_vars

\* the malformed payload of call b was delivered with its notification
RejectedBad(b) == jobs[b].op = "sendBad" /\ jobs[b].ret = "pdTRUE"

\* C11: malformed job rejection: no job is executed for a payload of the
\* wrong size that arrived under the work notification, and every job
\* accepted by sendWork after it is executed and replied to once the system
\* has come to rest.
C11_MalformedJobRejection ==
    \A b \in 1..Len(jobs) :
        RejectedBad(b) =>
            /\ Executions(b) = 0
            /\ \A j \in (b + 1)..Len(jobs) :
                 (AcceptedWork(j) /\ Quiet) =>
                    /\ Executions(j) = 1
                    /\ RepliesReceived(j) = 1

(***************************************************************************)
(* The notification queue of FreeRTOS, as the send functions use it.       *)
(***************************************************************************)
\* calls recorded in one behaviour, those of interrupt handlers included
MaxSends == 4

Enqueue_Back(q, e, position) == Append(q, e)

\* queueSEND_TO_BACK / queueSEND_TO_FRONT
Enqueue(q, e, position) ==
    IF position = "front" THEN <<e>> \o q ELSE Append(q, e)

xQueueSend_Overwrite(q, e, position, length) ==
    IF Len(q) < length
    THEN [queue |-> Enqueue(q, e, position), ret |-> "pdTRUE"]
    ELSE [queue |-> Enqueue(Tail(q), e, position), ret |-> "pdTRUE"]

\* xQueueGenericSend / xQueueSendFromISR / xQueueSendToFrontFromISR at the
\* moment the call gives up waiting: the item goes in when there is room,
\* the queue is left alone and errQUEUE_FULL (pdFALSE) returned when not
xQueueSend(q, e, position, length) ==
    IF Len(q) < length
    THEN [queue |-> Enqueue(q, e, position), ret |-> "pdTRUE"]
    ELSE [queue |-> q, ret |-> "pdFALSE"]

NOTIFICATION_FROM_ISR_AsTask(X) == ToWord(identifier[RT], X)

NOTIFICATION_FROM_ISR(X) == ToWord(Ident(NTASK_TYPE_NOTIF_ISR_CONTX, 0), X)

\* the exception handler of the target stopped the program
Panicked == pc[RT] = "panic"

(***************************************************************************)
(* NTask::sendNotificationFromIsrTo and sendNotificationToFrontFromIsrTo,  *)
(* called from an interrupt handler. Neither tests dest: with a null dest  *)
(* dest->notification_queue is read through the null pointer, which is     *)
(* undefined: the load traps and the program stops, or the call goes on    *)
(* with whatever it read and returns either value.                         *)
(***************************************************************************)
IsrSend(dest, notif_value, position, op) ==
    /\ ~Panicked
    /\ LET call == Len(jobs) + 1
           notif == NOTIFICATION_FROM_ISR(notif_value)
           done(r) ==
               /\ jobs' = Append(jobs, [op |-> op, item |-> NoItem, ret |-> r])
               /\ last' = [op |-> op, dest |-> dest, value |-> notif_value,
                           position |-> position, ret |-> r]
       IN  IF dest = NULL
           THEN /\ notification_queue' = notification_queue
                /\ notifLog' = notifLog
                /\ \/ /\ pc' = [a \in Actors |-> "panic"]
                      /\ done("none")
                   \/ /\ pc' = pc
                      /\ \E r \in {"pdTRUE", "pdFALSE"} : done(r)
           ELSE LET s == xQueueSend(notification_queue[dest],
                                    [d0 |-> notif, call |-> call, op |-> op,
                                     payload |-> "none"],
                                    position, QueueLength(dest))
                IN  /\ notification_queue' =
                          [notification_queue EXCEPT ![dest] = s.queue]
                    /\ notifLog' = IF dest = WQ /\ s.ret = "pdTRUE"
                                   THEN Append(notifLog, call) ELSE notifLog
                    /\ done(s.ret)
                    /\ pc' = pc
    /\ UNCHANGED <<ntask_list, identifier, live>>
    /\ UNCHANGED othervars
    /\ UNCHANGED <<receiving_buff, borrowed, mutex_receiving_buff, loc, wq, rt,
                   execLog, rtLog>>

sendNotificationFromIsrTo(dest, notif_value) ==
    /\ Len(jobs) < MaxCalls
    /\ IsrSend(dest, notif_value, "back", "sendNotificationFromIsrTo")

sendNotificationToFrontFromIsrTo(dest, notif_value) ==
    /\ Len(jobs) < MaxCalls
    /\ IsrSend(dest, notif_value, "front", "sendNotificationToFrontFromIsrTo")

\* an interrupt handler notifying the reply target with
\* sendNotificationFromIsrTo, also after the clients have made their calls
InterruptFill ==
    /\ Len(jobs) < MaxSends
    /\ IsrSend(RT, JOB_DONE, "back", "sendNotificationFromIsrTo")

(***************************************************************************)
(* sendDataTo towards one destination, with payloads of the size its ring   *)
(* buffer accepts, and interrupts filling its notification queue.          *)
(***************************************************************************)
NextLock ==
    \/ \E c \in Clients, size \in DataSizes \ {RTRingSize}, k \in Ticks :
          sendBytes(c, size, k)
    \/ \E th \in Clients : SD_Take(th)
    \/ \E th \in Clients : SD_TakeTimeout(th)
    \/ \E th \in Clients : SD_RingSend(th)
    \/ \E th \in Clients : SD_RingFail(th)
    \/ \E th \in Clients : SD_Notify(th)
    \/ \E th \in Clients : SD_Give(th)
    \/ InterruptFill
    \/ RT_ReceiveNotification
    \/ RT_ReceiveData
    \/ RT_ReturnData

SpecLock == InitBoot /\ [][NextLock]_vars

\* the notification of call j is in the reply target's queue or was
\* received from it
Notified(j) ==
    \/ \E i \in 1..Len(notification_queue[RT]) : notification_queue[RT][i].call = j
    \/ \E i \in 1..Len(rtLog) : rtLog[i].what = "notification" /\ rtLog[i].call = j

\* the thread is inside sendDataTo, between xSemaphoreTake and xSemaphoreGive
HasLock(th) == pc[th] \in {"sd_ring", "sd_notif", "sd_give"}

MailboxFull(d) == Len(notification_queue[d]) = QueueLength(d)

\* C12: a sendDataTo call with usenotif that took the destination's mutex
\* does not come to its return before its notification is in the
\* destination's queue, whatever ticktowait it was given; so a call that
\* returned pdTRUE has its notification enqueued.
C12_NotificationBeforeReturn ==
    /\ \A th \in Clients :
         (pc[th] = "sd_give" /\ loc[th].usenotif) => Notified(loc[th].call)
    /\ \A j \in 1..Len(jobs) :
         (jobs[j].op = "sendDataTo" /\ jobs[j].ret = "pdTRUE") => Notified(j)

\* a call given a zero ticktowait is at its return and its notification
\* filled the queue
C12_Witness ==
    \E th \in Clients :
        /\ pc[th] = "sd_give"
        /\ loc[th].usenotif
        /\ loc[th].ticktowait = 0
        /\ MailboxFull(RT)
        /\ \E i \in 1..Len(notification_queue[RT]) :
              notification_queue[RT][i].call = loc[th].call

\* C13: starvation: while the destination's queue is full, a sendDataTo
\* call that holds the destination's mutex and waits to notify does not
\* advance, whatever its ticktowait, and keeps the mutex; every other
\* sendDataTo call to that destination that leaves xSemaphoreTake meanwhile
\* leaves it by the timeout, returning pdFALSE.
C13_StarvationRisk ==
    [][\A th \in Clients :
          (pc[th] = "sd_notif" /\ MailboxFull(loc[th].destination)) =>
              /\ pc'[th] = "sd_notif"
              /\ mutex_receiving_buff'[loc[th].destination] = th
              /\ \A o \in Clients \ {th} :
                   (/\ pc[o] = "sd_take"
                    /\ loc[o].destination = loc[th].destination
                    /\ pc'[o] # "sd_take") =>
                       /\ pc'[o] = "idle"
                       /\ jobs'[loc[o].call].ret = "pdFALSE"]_vars

\* a call with a zero ticktowait waits on the full queue holding the mutex,
\* while another call with a zero ticktowait to the same destination is at
\* xSemaphoreTake
C13_Witness ==
    \E th \in Clients : \E o \in Clients \ {th} :
        /\ pc[th] = "sd_notif"
        /\ loc[th].ticktowait = 0
        /\ MailboxFull(RT)
        /\ mutex_receiving_buff[RT] = th
        /\ pc[o] = "sd_take"
        /\ loc[o].destination = RT
        /\ loc[o].ticktowait = 0

\* C14: the calls to one destination are serialized by its mutex: at most
\* one thread is between xSemaphoreTake and xSemaphoreGive for it, the mutex
\* is held by exactly that thread, and by no thread outside such a call.
C14_SerializedByLock ==
    \A d \in Actors :
        LET inside == {th \in Senders : HasLock(th) /\ loc[th].destination = d}
        IN  /\ Cardinality(inside) <= 1
            /\ \A th \in inside : mutex_receiving_buff[d] = th
            /\ inside = {} => mutex_receiving_buff[d] = NULL

\* one call holds the mutex while the other client's call waits for it
C14_Witness ==
    /\ HasLock(CA)
    /\ pc[CB] = "sd_take"
    /\ loc[CA].destination = loc[CB].destination
    /\ mutex_receiving_buff[RT] = CA

\* C15: a sendDataTo call that leaves xSemaphoreTake without the mutex
\* returns pdFALSE and leaves the destination's ring buffer and notification
\* queue as they were, and the mutex with its holder.
C15_LockTimeoutLeavesAllAlone ==
    [][\A th \in Clients :
          (pc[th] = "sd_take" /\ pc'[th] # "sd_take" /\ pc'[th] # "sd_ring") =>
              /\ jobs'[loc[th].call].ret = "pdFALSE"
              /\ receiving_buff' = receiving_buff
              /\ borrowed' = borrowed
              /\ notification_queue' = notification_queue
              /\ mutex_receiving_buff' = mutex_receiving_buff
              /\ mutex_receiving_buff[loc[th].destination] # th]_vars

\* a call has returned pdFALSE having sent nothing, and the thread that
\* held the mutex meanwhile is still inside its call
C15_Witness ==
    \E j \in 1..Len(jobs) :
        /\ jobs[j].op = "sendDataTo"
        /\ jobs[j].ret = "pdFALSE"
        /\ ~Notified(j)
        /\ \E th \in Clients : pc[th] = "sd_ring" /\ mutex_receiving_buff[RT] = th

(***************************************************************************)
(* The notification functions called by tasks and interrupt handlers, the  *)
(* misuse of sendDataTo, and a receiver that waits with a timeout.         *)
(***************************************************************************)
\* destinations given to the send functions: a pointer (to the reply target
\* or null) or an identifier (the reply target's, or one no actor holds)
NotifyTargets ==
    {[how |-> "ref", to |-> RT], [how |-> "ref", to |-> NULL],
     [how |-> "id", to |-> W_id(BootIdentifier[RT])],
     [how |-> "id", to |-> W_id(Ident(9, 9))]}

\* notif_value given from interrupt handlers (the second is the largest a
\* notification word holds within the integers of the checker)
IsrValues == {JOB_DONE, 32767}

IsrOps == {"sendNotificationFromIsrTo", "sendNotificationToFrontFromIsrTo"}

NotifyOps == {"sendNotificationTo", "sendNotificationToFrontTo"}

\* the overloads taking an Identifier_t go through getNTaskByIdentifier
Resolve(target) ==
    IF target.how = "id" THEN getNTaskByIdentifier(target.to) ELSE target.to

\* NTask::sendNotificationTo / sendNotificationToFrontTo (NTask * or
\* Identifier_t, notif_value, ticktowait): TO_NOTIFICATION, then the base
\* function: pdFALSE for a null dest, else xQueueGenericSend, which waits
\* for room up to ticktowait
sendNotificationTo(c, target, notif_value, ticktowait, position) ==
    /\ pc[c] = "idle"
    /\ Len(jobs) < MaxCalls
    /\ LET dest == Resolve(target)
           call == Len(jobs) + 1
           op == IF position = "front" THEN "sendNotificationToFrontTo"
                 ELSE "sendNotificationTo"
           e == [d0 |-> TO_NOTIFICATION(c, notif_value), call |-> call,
                 op |-> op, payload |-> "none"]
           done(r) ==
               /\ jobs' = Append(jobs, [op |-> op, item |-> NoItem, ret |-> r])
               /\ last' = [op |-> op, by |-> c, target |-> target,
                           value |-> notif_value, ticktowait |-> ticktowait,
                           position |-> position, ret |-> r]
       IN  IF dest = NULL
           THEN /\ notification_queue' = notification_queue
                /\ notifLog' = notifLog
                /\ done("pdFALSE")
           ELSE LET s == xQueueSend(notification_queue[dest], e, position,
                                    QueueLength(dest))
                IN  /\ s.ret = "pdFALSE" => ticktowait # portMAX_DELAY
                    /\ notification_queue' =
                          [notification_queue EXCEPT ![dest] = s.queue]
                    /\ notifLog' = IF dest = WQ /\ s.ret = "pdTRUE"
                                   THEN Append(notifLog, call) ELSE notifLog
                    /\ done(s.ret)
    /\ UNCHANGED <<ntask_list, identifier, live>>
    /\ UNCHANGED othervars
    /\ UNCHANGED <<receiving_buff, borrowed, mutex_receiving_buff, pc, loc, wq,
                   rt, execLog, rtLog>>

\* arguments of sendDataTo with a null destination, a null data pointer, both
MisuseArgs ==
    {[dest |-> NULL, data |-> Ptr(7)], [dest |-> RT, data |-> NullPtr],
     [dest |-> NULL, data |-> NullPtr]}

\* RTask::sendDataTo(dest, data, size, ticktowait, notif_value) given a null
\* pointer: lines 20-21 return pdFALSE
sendDataNull(c, args) ==
    /\ pc[c] = "idle"
    /\ Len(jobs) < MaxCalls
    /\ jobs' = Append(jobs, [op |-> "sendDataTo", item |-> NoItem,
                             ret |-> "pdFALSE"])
    /\ last' = [op |-> "sendDataTo", by |-> c, dest |-> args.dest,
                data |-> args.data, ret |-> "pdFALSE"]
    /\ sendDataTo(c, args.dest, args.data, 4, portMAX_DELAY, TRUE,
                  TO_NOTIFICATION(c, DATA_READY), "sendDataTo", Len(jobs) + 1)
    /\ UNCHANGED <<ntask_list, identifier, live>>
    /\ UNCHANGED othervars
    /\ UNCHANGED <<notification_queue, receiving_buff, borrowed,
                   mutex_receiving_buff, wq, rt, execLog, notifLog, rtLog>>

receiveNotificationFailed_Local(notif) == notif

\* NTask::receiveNotification, line 102: what it returns when xQueueReceive
\* failed; `notif` is its local, which xQueueReceive left unwritten
receiveNotificationFailed(notif) == 0

\* NTask::receiveNotification(ticktowait) with a finite ticktowait on a queue
\* that stayed empty
RT_ReceiveNotificationTimeout ==
    /\ pc[RT] = "rt_wait"
    /\ notification_queue[RT] = <<>>
    /\ rt' = [notif |-> receiveNotificationFailed(rt.notif), call |-> 0,
              payload |-> "timeout", buf |-> NULL]
    /\ UNCHANGED dirvars
    /\ UNCHANGED othervars
    /\ UNCHANGED <<notification_queue, receiving_buff, borrowed,
                   mutex_receiving_buff, pc, loc, wq, jobs, execLog, notifLog,
                   rtLog>>

NextNotif ==
    \/ \E target \in NotifyTargets, k \in Ticks, position \in {"back", "front"} :
          sendNotificationTo(CA, target, DATA_READY, k, position)
    \/ \E args \in MisuseArgs : sendDataNull(CB, args)
    \/ \E dest \in {RT, NULL}, v \in IsrValues : sendNotificationFromIsrTo(dest, v)
    \/ \E dest \in {RT, NULL}, v \in IsrValues :
          sendNotificationToFrontFromIsrTo(dest, v)
    \/ RT_ReceiveNotification
    \/ RT_ReceiveNotificationTimeout
    \/ RT_ReceiveData

SpecNotif == InitBoot /\ [][NextNotif]_vars

(***************************************************************************)
(* Claims about the notification functions, checked under SpecNotif.       *)
(***************************************************************************)
\* the step is a call of a send function; `last` describes it afterwards
SendStep == Len(jobs') = Len(jobs) + 1

\* the live actors holding the identifier `key`
Holders(key) == {a \in live : W_id(identifier[a]) = key}

\* the destination given is absent: a null pointer, or an identifier that no
\* live actor holds
Absent(target) ==
    IF target.how = "ref" THEN target.to = NULL ELSE Holders(target.to) = {}

\* C16: sendNotificationTo / sendNotificationToFrontTo, given a pointer or an
\* identifier, returns pdTRUE exactly when it put the notification (the
\* caller's identifier and the value) at the asked end of the destination's
\* queue; it returns pdFALSE, with every queue unchanged, when the
\* destination is absent or when the queue stayed full for a finite
\* ticktowait.
C16_SendNotificationResult ==
    [][(SendStep /\ last'.op \in NotifyOps) =>
          LET r == last'
              d == IF r.target.how = "ref" THEN r.target.to
                   ELSE CHOOSE a \in Holders(r.target.to) : TRUE
              old == notification_queue[d]
              new == notification_queue'[d]
          IN  /\ r.ret \in {"pdTRUE", "pdFALSE"}
              /\ Absent(r.target) => r.ret = "pdFALSE"
              /\ r.ret = "pdFALSE" =>
                    /\ notification_queue' = notification_queue
                    /\ \/ Absent(r.target)
                       \/ MailboxFull(d) /\ r.ticktowait # portMAX_DELAY
              /\ r.ret = "pdTRUE" =>
                    /\ Len(new) = Len(old) + 1
                    /\ \A a \in Actors \ {d} :
                          notification_queue'[a] = notification_queue[a]
                    /\ IF r.position = "front"
                       THEN /\ new[1].d0 = ToWord(identifier[r.by], r.value)
                            /\ Tail(new) = old
                       ELSE /\ new[Len(new)].d0 = ToWord(identifier[r.by], r.value)
                            /\ SubSeq(new, 1, Len(old)) = old]_vars

\* sendNotificationToFrontTo given the reply target's identifier has put its
\* notification in front of one that was waiting
C16_Witness ==
    /\ last.op = "sendNotificationToFrontTo"
    /\ last.target.how = "id"
    /\ last.ret = "pdTRUE"
    /\ Len(notification_queue[RT]) = 2
    /\ notification_queue[RT][1].call = Len(jobs)

\* the call was given a null destination, or sendDataTo a null data pointer
NullGiven(r) ==
    \/ r.op \in NotifyOps /\ r.target.how = "ref" /\ r.target.to = NULL
    \/ r.op \in IsrOps /\ r.dest = NULL
    \/ r.op = "sendDataTo" /\ (r.dest = NULL \/ r.data.ptr = NULL)

\* C17: every send function given a null destination, and sendDataTo given
\* a null data pointer, returns pdFALSE, leaves every notification queue,
\* ring buffer and mutex as it was, and does not stop the program.
C17_MisuseIsNoOp ==
    [][(SendStep /\ NullGiven(last')) =>
          /\ last'.ret = "pdFALSE"
          /\ notification_queue' = notification_queue
          /\ receiving_buff' = receiving_buff
          /\ borrowed' = borrowed
          /\ mutex_receiving_buff' = mutex_receiving_buff
          /\ pc'[RT] # "panic"]_vars

\* C18: the notification put into a queue by sendNotificationFromIsrTo or
\* sendNotificationToFrontFromIsrTo has the sender identifier
\* (NTASK_TYPE_NOTIF_ISR_CONTX, 0) and the value given.
C18_IsrSenderIdentifier ==
    [][(SendStep /\ last'.op \in IsrOps /\ last'.dest # NULL
                 /\ last'.ret = "pdTRUE") =>
          LET q == notification_queue'[last'.dest]
              new == IF last'.position = "front" THEN q[1] ELSE q[Len(q)]
          IN  /\ Len(q) = Len(notification_queue[last'.dest]) + 1
              /\ NotifIdentifier(new.d0) = Ident(NTASK_TYPE_NOTIF_ISR_CONTX, 0)
              /\ NotifValue(new.d0) = last'.value]_vars

\* sendNotificationToFrontFromIsrTo has put the largest value in front of a
\* notification sent by a task
C18_Witness ==
    /\ last.op = "sendNotificationToFrontFromIsrTo"
    /\ last.ret = "pdTRUE"
    /\ last.value = 32767
    /\ Len(notification_queue[RT]) = 2
    /\ notification_queue[RT][1].op = "sendNotificationToFrontFromIsrTo"
    /\ notification_queue[RT][2].op \in NotifyOps

\* C19: the send functions for interrupt handlers do not block: a call with
\* a destination takes no mutex and moves no thread; it puts the
\* notification in when there is room, and on a full queue it returns
\* pdFALSE at once with the queue unchanged; and the call can be made in
\* every state, whatever the queue holds.
C19_IsrNeverBlocks ==
    /\ [][(SendStep /\ last'.op \in IsrOps /\ last'.dest # NULL) =>
             /\ mutex_receiving_buff' = mutex_receiving_buff
             /\ pc' = pc
             /\ MailboxFull(last'.dest) =>
                   /\ last'.ret = "pdFALSE"
                   /\ notification_queue' = notification_queue
             /\ ~MailboxFull(last'.dest) => last'.ret = "pdTRUE"]_vars
    /\ [](Len(jobs) < MaxCalls /\ ~Panicked =>
             /\ ENABLED sendNotificationFromIsrTo(RT, JOB_DONE)
             /\ ENABLED sendNotificationToFrontFromIsrTo(RT, JOB_DONE))

\* an interrupt handler's send has returned pdFALSE on the full queue
C19_Witness ==
    /\ last.op \in IsrOps
    /\ last.dest = RT
    /\ last.ret = "pdFALSE"
    /\ MailboxFull(RT)

\* C20: receiveNotification on a queue that stayed empty returns the
\* notification word 0 and removes nothing; receiveData on an empty ring
\* buffer returns the null pointer and takes nothing; and neither blocks:
\* the return is possible as soon as the queue or buffer is empty.
C20_TimeoutSemantics ==
    /\ [][/\ (pc[RT] = "rt_wait" /\ notification_queue[RT] = <<>> /\ rt' # rt) =>
                /\ rt'.notif = 0
                /\ notification_queue' = notification_queue
                /\ pc' = pc
          /\ (pc[RT] = "rt_data" /\ receiving_buff[RT] = <<>>
                                 /\ pc'[RT] # "rt_data") =>
                /\ rt'.buf = NULL
                /\ receiving_buff' = receiving_buff
                /\ borrowed' = borrowed]_vars
    /\ []((pc[RT] = "rt_wait" /\ notification_queue[RT] = <<>>) =>
             ENABLED RT_ReceiveNotificationTimeout)
    /\ []((pc[RT] = "rt_data" /\ receiving_buff[RT] = <<>>) =>
             ENABLED RT_ReceiveData)

\* receiveNotification has timed out after a notification had been received
\* and receiveData had found the ring buffer empty
C20_Witness ==
    /\ rt.payload = "timeout"
    /\ rt.notif = 0
    /\ Len(rtLog) > 0
    /\ NotifValue(rtLog[Len(rtLog)].word) = DATA_READY

(***************************************************************************)
(* Round trips of byte payloads: sendDataTo by the clients, receiveData    *)
(* and returnData by the destination.                                      *)
(***************************************************************************)
\* the payloads sent: one byte, and as many bytes as the destination's ring
\* buffer accepts in one item
Payloads == {<<7>>, [i \in 1..MaxItemSize(RT) |-> 9 - i]}

\* RTask::sendDataTo(dest, data, size, ticktowait, notif_value) of a client
\* sending the bytes of a payload, size being their number
sendPayload(c, bytes, ticktowait) ==
    /\ pc[c] = "idle"
    /\ Len(jobs) < MaxCalls
    /\ jobs' = Append(jobs, [op |-> "sendData", item |-> bytes, ret |-> "pending"])
    /\ sendDataTo(c, RT, Ptr(bytes), Len(bytes), ticktowait, TRUE,
                  TO_NOTIFICATION(c, DATA_READY), "sendData", Len(jobs) + 1)
    /\ UNCHANGED dirvars
    /\ UNCHANGED othervars
    /\ UNCHANGED <<notification_queue, receiving_buff, borrowed,
                   mutex_receiving_buff, wq, rt, execLog, notifLog, rtLog>>

NextTrip ==
    \/ \E c \in Clients, bytes \in Payloads, k \in Ticks : sendPayload(c, bytes, k)
    \/ \E th \in Clients : SD_Take(th)
    \/ \E th \in Clients : SD_TakeTimeout(th)
    \/ \E th \in Clients : SD_RingSend(th)
    \/ \E th \in Clients : SD_RingFail(th)
    \/ \E th \in Clients : SD_Notify(th)
    \/ \E th \in Clients : SD_Give(th)
    \/ RT_ReceiveNotification
    \/ RT_ReceiveData
    \/ RT_ReturnData

SpecTrip == InitBoot /\ [][NextTrip]_vars

\* the payloads the destination's receiveData returned for call j
Received(j) == {i \in 1..Len(rtLog) : rtLog[i].what = "data" /\ rtLog[i].call = j}

\* C21: round trip: the payload of a sendDataTo call that returned pdTRUE is
\* returned by the destination's receiveData once, with the bytes and the
\* size that were sent (never twice or altered; once indeed when the system
\* has come to rest); and after returnData the ring buffer holds nothing but
\* the items not yet received, so an emptied buffer accepts the next payload.
C21_RoundTrip ==
    /\ \A i \in 1..Len(rtLog) :
          rtLog[i].what = "data" =>
              /\ rtLog[i].word = jobs[rtLog[i].call].item
              /\ rtLog[i].size = Len(jobs[rtLog[i].call].item)
    /\ \A j \in 1..Len(jobs) :
          /\ Cardinality(Received(j)) <= 1
          /\ (jobs[j].ret = "pdTRUE" /\ Quiet) => Cardinality(Received(j)) = 1
    /\ pc[RT] = "rt_wait" =>
          /\ borrowed[RT] = <<>>
          /\ RingUsed(RT) = SpaceOf(receiving_buff[RT])
    /\ \A th \in Clients :
          (pc[th] = "sd_ring" /\ receiving_buff[RT] = <<>> /\ borrowed[RT] = <<>>) =>
              RingFits(RT, loc[th].size)

\* three payloads of the largest size, more than the ring buffer holds at a
\* time, have made the round trip
C21_Witness ==
    /\ Quiet
    /\ Len(jobs) >= 3
    /\ \A j \in 1..3 :
          /\ jobs[j].ret = "pdTRUE"
          /\ Len(jobs[j].item) = MaxItemSize(RT)
          /\ Cardinality(Received(j)) = 1
    /\ 3 * ItemSpace(MaxItemSize(RT)) > RingSize(RT)

(***************************************************************************)
(* Claims about the lookup by type and the destructor, under SpecDir.      *)
(***************************************************************************)
\* types asked for: those given to the constructors and one no actor has
LookupTypes == NTypes \cup {NTASK_TYPE_NOTIF_WORK_QUEU}

\* C22: getNTaskByType(t) returns exactly the live actors whose type equals
\* t, each once, in the order of the directory, and the empty sequence when
\* there is none.
C22_LookupByType ==
    \A t \in LookupTypes :
        LET found == getNTaskByType(t)
            expected == {o \in live : identifier[o].type = t}
            index(o) == CHOOSE i \in 1..Len(ntask_list) : ntask_list[i] = o
        IN  /\ {found[i] : i \in 1..Len(found)} = expected
            /\ Len(found) = Cardinality(expected)
            /\ \A i \in 1..(Len(found) - 1) : index(found[i]) < index(found[i + 1])
            /\ expected = {} => found = <<>>

\* the lookup returns several actors, leaving out one of another type that
\* stands between them in the directory, and nothing for a third type
C22_Witness ==
    /\ Len(ntask_list) >= 3
    /\ identifier[ntask_list[Len(ntask_list)]].type = PreType
    /\ identifier[ntask_list[Len(ntask_list) - 1]].type # PreType
    /\ Len(getNTaskByType(PreType)) = Len(ntask_list) - 1
    /\ getNTaskByType(NTASK_TYPE_NOTIF_WORK_QUEU) = <<>>

\* C23: the destructor of an actor removes the entry of that actor and no
\* other: the directory afterwards is the directory before without the
\* entries equal to the actor, in the same order, one entry shorter when the
\* actor had its entry, also when another live actor holds the same
\* identifier; when the actor has no entry the directory is unchanged.
C23_DestroyRemovesOwnEntry ==
    [][\A o \in live \ live' :
          LET keep(x) == x # o IN
          /\ ntask_list' = SelectSeq(ntask_list, keep)
          /\ o \in DirEntries => Len(ntask_list') = Len(ntask_list) - 1
          /\ o \notin DirEntries => ntask_list' = ntask_list]_vars

\* a destructor has removed one of two actors that held the same identifier,
\* and the other one is still the last entry of the directory
C23_Witness ==
    /\ last.op = "dtor"
    /\ last.obj \notin DirEntries
    /\ Len(ntask_list) >= 2
    /\ W_id(identifier[ntask_list[Len(ntask_list)]]) = last.key

(***************************************************************************)
(* Jobs whose functions return every kind of result, sent to the work      *)
(* queue by one client.                                                    *)
(***************************************************************************)
\* a result forwarded, one the reply target's ring buffer refuses, one for
\* no reply target, a buffer with a size of 0, a size without a buffer
ResultItems ==
    {[work_args |-> 21, work_function |-> "twice", returning_task |-> RT,
      notif_value |-> DATA_READY],
     [work_args |-> 21, work_function |-> "big", returning_task |-> RT,
      notif_value |-> JOB_DONE],
     [work_args |-> 21, work_function |-> "twice", returning_task |-> NULL,
      notif_value |-> DATA_READY],
     [work_args |-> 21, work_function |-> "empty", returning_task |-> RT,
      notif_value |-> JOB_DONE],
     [work_args |-> 21, work_function |-> "unsized", returning_task |-> RT,
      notif_value |-> JOB_DONE]}

NextOwn ==
    \/ \E item \in ResultItems : sendJob(CB, item, portMAX_DELAY)
    \/ \E th \in Senders : SD_Take(th)
    \/ \E th \in Senders : SD_RingSend(th)
    \/ \E th \in Senders : SD_RingFail(th)
    \/ \E th \in Senders : SD_Notify(th)
    \/ \E th \in Senders : SD_Give(th)
    \/ WQ_ReceiveNotification
    \/ WQ_ReceiveData
    \/ WQ_Exec
    \/ WQ_Free
    \/ WQ_Notify
    \/ RT_ReceiveNotification
    \/ RT_ReceiveData
    \/ RT_ReturnData

SpecOwn == InitBoot /\ [][NextOwn]_vars

\* ret_data and size as the run loop holds them
HeldResult == [data |-> wq.ret_data, size |-> wq.size]

\* the work queue's thread is inside the forwarding sendDataTo
Forwarding == pc[WQ] \in {"sd_take", "sd_ring", "sd_notif", "sd_give"}

\* the calls whose payloads are in the reply target's hands
ForwardedCalls ==
    {receiving_buff[RT][i].call : i \in 1..Len(receiving_buff[RT])}
        \cup {borrowed[RT][i].call : i \in 1..Len(borrowed[RT])}
        \cup {rtLog[i].call : i \in {k \in 1..Len(rtLog) : rtLog[k].what = "data"}}

\* C24: result ownership: a result with a non-null pointer and a non-zero
\* size is forwarded with sendDataTo and then freed, once: the run loop
\* comes to free(ret_data) only when sendDataTo has returned, whatever it
\* returned, frees there, and does not wait for the next notification
\* without having passed there; a result that is null or of size zero is not
\* given to sendDataTo, and no payload of such a job reaches the reply target.
C24_ResultOwnership ==
    /\ [](Forwarding => (HasResult(HeldResult) /\ loc[WQ].data = wq.ret_data))
    /\ [](pc[WQ] = "wq_free" =>
             /\ HasResult(HeldResult)
             /\ loc[WQ] = NoCall
             /\ \A d \in Actors : mutex_receiving_buff[d] # WQ)
    /\ [](\A j \in ForwardedCalls : HasResult(ResultOf(j)))
    /\ [][/\ (pc[WQ] = "wq_exec" /\ pc'[WQ] # "wq_exec") =>
                IF HasResult(ApplyWork(wq.item.work_function, wq.item.work_args))
                THEN pc'[WQ] \in {"sd_take", "wq_free"}
                ELSE /\ pc'[WQ] = "wq_notify"
                     /\ loc' = loc
                     /\ receiving_buff' = receiving_buff
          /\ (pc[WQ] = "wq_free" /\ pc'[WQ] # "wq_free") =>
                /\ pc'[WQ] = "wq_wait"
                /\ wq'.ret_data = NullPtr
          /\ (pc'[WQ] = "wq_wait" /\ pc[WQ] # "wq_wait" /\ HasResult(HeldResult)) =>
                pc[WQ] = "wq_free"]_vars

\* the result of a job is about to be freed after a forwarding that failed,
\* and the result of an earlier job reached the reply target
C24_Witness ==
    /\ pc[WQ] = "wq_free"
    /\ wq.size = RTRingSize
    /\ wq.job \notin ForwardedCalls
    /\ \E j \in ForwardedCalls : j < wq.job

(***************************************************************************)
(* Claims about the run loop of the work queue, checked under Spec.        *)
(***************************************************************************)
\* the value field of the notification at the head of the work queue's
\* mailbox: the high half of the word
HeadValue == Head(notification_queue[WQ]).d0 \div 65536

\* C25: when the run loop receives a notification whose value is not
\* NOTIFICATION_WORK_IN_QUEUE, it takes no item from the ring buffer, invokes
\* no job function, sends no reply and waits for the next notification; it
\* is past the wait only for a notification with that value.
C25_OtherNotificationSkipped ==
    /\ [][(/\ pc[WQ] = "wq_wait"
           /\ notification_queue[WQ] # <<>>
           /\ notification_queue'[WQ] = Tail(notification_queue[WQ])
           /\ HeadValue # NOTIFICATION_WORK_IN_QUEUE) =>
              /\ receiving_buff' = receiving_buff
              /\ borrowed' = borrowed
              /\ execLog' = execLog
              /\ notification_queue'[RT] = notification_queue[RT]
              /\ mutex_receiving_buff' = mutex_receiving_buff
              /\ loc' = loc
              /\ pc' = pc]_vars
    /\ [](pc[WQ] # "wq_wait" => wq.notif \div 65536 = NOTIFICATION_WORK_IN_QUEUE)

\* the run loop has received a notification of another value (that of a
\* sendWork call) and waits again, the item of that call still in the ring
\* buffer and no job invoked
C25_Witness ==
    /\ pc[WQ] = "wq_wait"
    /\ notification_queue[WQ] = <<>>
    /\ execLog = <<>>
    /\ \E j \in 1..Len(jobs) :
          /\ jobs[j].op = "sendWork"
          /\ jobs[j].ret = "pdTRUE"
          /\ \E i \in 1..Len(receiving_buff[WQ]) : receiving_buff[WQ][i].call = j

\* C26: every buffer the run loop obtains from receiveData is given back
\* with returnData before the loop waits for the next notification, on the
\* path of the accepted size and on the path of the size mismatch: while the
\* loop waits for a notification or for data, no buffer of the work queue's
\* ring buffer is borrowed.
C26_BufferReturned ==
    pc[WQ] \in {"wq_wait", "wq_data"} => borrowed[WQ] = <<>>

\* the entry a send to the back has just put into the queue of d
Enqueued(d) == notification_queue'[d][Len(notification_queue'[d])]

\* C27: every notification put into a queue from a task (by sendDataTo with
\* a notification value, by sendWork, by the replies of the work queue) has
\* in its Identifier field the identifier of the actor that sent it (for
\* sendWork: of the caller or of the work queue whose member it is); the
\* replies of the work queue have the queue's identifier, of type
\* NTASK_TYPE_NOTIF_WORK_QUEU, and the notif_value of the work item.
C27_SenderIdentifier ==
    [][/\ \A th \in Senders :
            (pc[th] = "sd_notif" /\ pc'[th] = "sd_give") =>
               LET e == Enqueued(loc[th].destination) IN
               /\ NotifIdentifier(e.d0) \in
                     {identifier[th]} \cup
                        (IF loc[th].op = "sendWork" THEN {identifier[WQ]} ELSE {})
               /\ th = WQ =>
                     /\ NotifIdentifier(e.d0).type = NTASK_TYPE_NOTIF_WORK_QUEU
                     /\ NotifValue(e.d0) = wq.item.notif_value
       /\ (pc[WQ] = "wq_notify" /\ pc'[WQ] = "wq_wait"
                                /\ wq.item.returning_task # NULL) =>
               LET e == Enqueued(wq.item.returning_task) IN
               /\ NotifIdentifier(e.d0) = identifier[WQ]
               /\ NotifIdentifier(e.d0).type = NTASK_TYPE_NOTIF_WORK_QUEU
               /\ NotifValue(e.d0) = wq.item.notif_value]_vars

(***************************************************************************)
(* Fair scheduling: every thread that can take a step of sendDataTo, of    *)
(* the run loop or of the reply target's loop eventually takes it; a       *)
(* thread waiting for the mutex, for room in a ring buffer or in a queue   *)
(* gets it when it comes free again and again. The clients are free to     *)
(* make no further call.                                                   *)
(***************************************************************************)
Fairness ==
    /\ \A th \in Senders :
          /\ SF_vars(SD_Take(th))
          /\ SF_vars(SD_RingSend(th))
          /\ WF_vars(SD_RingFail(th))
          /\ SF_vars(SD_Notify(th))
          /\ WF_vars(SD_Give(th))
    /\ WF_vars(WQ_ReceiveNotification)
    /\ WF_vars(WQ_ReceiveData)
    /\ WF_vars(WQ_Exec)
    /\ WF_vars(WQ_Free)
    /\ SF_vars(WQ_Notify)
    /\ WF_vars(RT_ReceiveNotification)
    /\ WF_vars(RT_ReceiveData)
    /\ WF_vars(RT_ReturnData)

SpecLive == InitBoot /\ [][Next]_vars /\ Fairness

\* C28: under fair scheduling every job accepted by sendWork is eventually
\* invoked, once, and its reply eventually received by the reply target;
\* and the run loop does not stay in receiveData for ever after a work
\* notification.
C28_DispatchLiveness ==
    /\ \A j \in 1..MaxCalls :
          (Len(jobs) >= j /\ AcceptedWork(j)) ~>
              (Len(jobs) >= j /\ Executions(j) = 1 /\ RepliesReceived(j) = 1)
    /\ [](\A j \in 1..Len(jobs) : Executions(j) <= 1)
    /\ (pc[WQ] = "wq_data") ~> (pc[WQ] # "wq_data")

(***************************************************************************)
(* The order of the notification queue, checked under SpecNotif.           *)
(***************************************************************************)
\* the destination of the send call described by r, once resolved
DestOf(r) == IF r.op \in NotifyOps THEN Resolve(r.target) ELSE r.dest

\* the send call numbered j put its notification at the back
SentToBack(j) == jobs[j].op \in {"sendNotificationTo", "sendNotificationFromIsrTo"}

\* the calls whose notifications the reply target has received, in order
ReceivedCalls ==
    LET isNotif(e) == e.what = "notification"
        log == SelectSeq(rtLog, isNotif)
    IN  [i \in 1..Len(log) |-> log[i].call]

\* C29: a notification queue never holds more entries than its length; the
\* notifications put at the back are received in the order in which they
\* were put in; a notification put at the front, by a task or an interrupt
\* handler, stands before every notification that was in the queue, and
\* receiveNotification returns the entry at the head of the queue.
C29_MailboxOrdering ==
    /\ [](\A d \in Actors : Len(notification_queue[d]) <= QueueLength(d))
    /\ [](LET got == ReceivedCalls
              waiting == [i \in 1..Len(notification_queue[RT]) |->
                             notification_queue[RT][i].call]
              all == got \o waiting
          IN  \A i, k \in 1..Len(all) :
                 (i < k /\ SentToBack(all[i]) /\ SentToBack(all[k])) =>
                     all[i] < all[k])
    /\ [][/\ (/\ SendStep
              /\ last'.op \in NotifyOps \cup IsrOps
              /\ last'.position = "front"
              /\ last'.ret = "pdTRUE"
              /\ DestOf(last') # NULL) =>
                 /\ Head(notification_queue'[DestOf(last')]).call = Len(jobs')
                 /\ Tail(notification_queue'[DestOf(last')]) =
                        notification_queue[DestOf(last')]
          /\ (Len(notification_queue'[RT]) < Len(notification_queue[RT])) =>
                 /\ rt'.notif = Head(notification_queue[RT]).d0
                 /\ rt'.call = Head(notification_queue[RT]).call
                 /\ notification_queue'[RT] = Tail(notification_queue[RT])]_vars

\* a notification put at the front by an interrupt handler was received
\* before one a task had put at the back earlier, which was received next
C29_Witness ==
    /\ Len(ReceivedCalls) >= 2
    /\ ReceivedCalls[1] > ReceivedCalls[2]
    /\ jobs[ReceivedCalls[1]].op = "sendNotificationToFrontFromIsrTo"
    /\ jobs[ReceivedCalls[2]].op = "sendNotificationTo"

(***************************************************************************)
(* Construction and destruction of RTask objects statement by statement,   *)
(* while a running actor sends through the directory. An actor has a       *)
(* notification queue, a ring buffer or a mutex when it is in the domain   *)
(* of the variable of that name.                                           *)
(***************************************************************************)
Without(f, o) == [x \in DOMAIN f \ {o} |-> f[x]]

With(f, o, v) == [x \in DOMAIN f \cup {o} |-> IF x = o THEN v ELSE f[x]]

\* the resources the members of the object refer to exist
Allocated(o) ==
    /\ o \in DOMAIN notification_queue
    /\ o \in DOMAIN receiving_buff
    /\ o \in DOMAIN mutex_receiving_buff

\* the objects constructed and destroyed
LifeObj == {RT, CB}

\* the directory holds the one running actor, the client CA
InitLife ==
    /\ ntask_list = <<CA>>
    /\ identifier = [x \in {CA} |-> BootIdentifier[CA]]
    /\ live = {CA}
    /\ last = [op |-> "none", obj |-> NULL, key |-> 0]
    /\ notification_queue = [x \in {CA} |-> <<>>]
    /\ receiving_buff = [x \in {CA} |-> <<>>]
    /\ borrowed = [x \in {CA} |-> <<>>]
    /\ mutex_receiving_buff = [x \in {CA} |-> NULL]
    /\ pc = [x \in {CA} \cup LifeObj |-> IF x = CA THEN "idle" ELSE "absent"]
    /\ loc = [x \in {CA} |-> NoCall]
    /\ wq = NoWork
    /\ rt = NoRecv
    /\ jobs = <<>>
    /\ execLog = <<>>
    /\ notifLog = <<>>
    /\ rtLog = <<>>
    /\ workQueueLength = WorkQueueLength
    /\ InitTask
    /\ InitSensor

\* NTask::NTask, lines 117-119: the identifier, then ntask_list.push_back
Ctor_Register(o, ntype) ==
    /\ pc[o] = "absent"
    /\ LET id == getIDnotTaken(ntype) IN
       identifier' = With(identifier, o, Ident(ntype, id))
    /\ ntask_list' = Append(ntask_list, o)
    /\ live' = live \cup {o}
    /\ last' = [op |-> "ctor", obj |-> o, key |-> W_id(identifier'[o])]
    /\ pc' = [pc EXCEPT ![o] = "ctor_queue"]
    /\ UNCHANGED othervars
    /\ UNCHANGED <<notification_queue, receiving_buff, borrowed,
                   mutex_receiving_buff, loc, wq, rt, jobs, execLog, notifLog,
                   rtLog>>

\* NTask::NTask, line 120: xQueueCreate
Ctor_QueueCreate(o) ==
    /\ pc[o] = "ctor_queue"
    /\ notification_queue' = With(notification_queue, o, <<>>)
    /\ pc' = [pc EXCEPT ![o] = "ctor_ring"]
    /\ UNCHANGED dirvars
    /\ UNCHANGED othervars
    /\ UNCHANGED <<receiving_buff, borrowed, mutex_receiving_buff, loc, wq, rt,
                   jobs, execLog, notifLog, rtLog>>

\* RTask::RTask, lines 50-51: xRingbufferCreate
Ctor_RingbufferCreate(o) ==
    /\ pc[o] = "ctor_ring"
    /\ receiving_buff' = With(receiving_buff, o, <<>>)
    /\ borrowed' = With(borrowed, o, <<>>)
    /\ pc' = [pc EXCEPT ![o] = "ctor_mutex"]
    /\ UNCHANGED dirvars
    /\ UNCHANGED othervars
    /\ UNCHANGED <<notification_queue, mutex_receiving_buff, loc, wq, rt, jobs,
                   execLog, notifLog, rtLog>>

\* RTask::RTask, line 52: xSemaphoreCreateMutex
Ctor_MutexCreate(o) ==
    /\ pc[o] = "ctor_mutex"
    /\ mutex_receiving_buff' = With(mutex_receiving_buff, o, NULL)
    /\ pc' = [pc EXCEPT ![o] = "ready"]
    /\ UNCHANGED dirvars
    /\ UNCHANGED othervars
    /\ UNCHANGED <<notification_queue, receiving_buff, borrowed, loc, wq, rt,
                   jobs, execLog, notifLog, rtLog>>

\* RTask::~RTask, line 61: vSemaphoreDelete
Dtor_SemaphoreDelete(o) ==
    /\ pc[o] = "ready"
    /\ mutex_receiving_buff' = Without(mutex_receiving_buff, o)
    /\ pc' = [pc EXCEPT ![o] = "dtor_ring"]
    /\ UNCHANGED dirvars
    /\ UNCHANGED othervars
    /\ UNCHANGED <<notification_queue, receiving_buff, borrowed, loc, wq, rt,
                   jobs, execLog, notifLog, rtLog>>

\* RTask::~RTask, line 62: vRingbufferDelete
Dtor_RingbufferDelete(o) ==
    /\ pc[o] = "dtor_ring"
    /\ receiving_buff' = Without(receiving_buff, o)
    /\ borrowed' = Without(borrowed, o)
    /\ pc' = [pc EXCEPT ![o] = "dtor_erase"]
    /\ UNCHANGED dirvars
    /\ UNCHANGED othervars
    /\ UNCHANGED <<notification_queue, mutex_receiving_buff, loc, wq, rt, jobs,
                   execLog, notifLog, rtLog>>

\* NTask::~NTask, lines 128-134: the entry of this is erased
Dtor_Erase(o) ==
    /\ pc[o] = "dtor_erase"
    /\ LET i == findThis(o, 1) IN
       ntask_list' = IF i <= Len(ntask_list) THEN eraseAt(ntask_list, i)
                     ELSE ntask_list
    /\ last' = [op |-> "dtor", obj |-> o, key |-> W_id(identifier[o])]
    /\ pc' = [pc EXCEPT ![o] = "dtor_queue"]
    /\ UNCHANGED <<identifier, live>>
    /\ UNCHANGED othervars
    /\ UNCHANGED <<notification_queue, receiving_buff, borrowed,
                   mutex_receiving_buff, loc, wq, rt, jobs, execLog, notifLog,
                   rtLog>>

\* NTask::~NTask, line 135: vQueueDelete; the object is gone
Dtor_QueueDelete(o) ==
    /\ pc[o] = "dtor_queue"
    /\ notification_queue' = Without(notification_queue, o)
    /\ identifier' = Without(identifier, o)
    /\ live' = live \ {o}
    /\ pc' = [pc EXCEPT ![o] = "absent"]
    /\ UNCHANGED <<ntask_list, last>>
    /\ UNCHANGED othervars
    /\ UNCHANGED <<receiving_buff, borrowed, mutex_receiving_buff, loc, wq, rt,
                   jobs, execLog, notifLog, rtLog>>

\* identifiers the running actor sends to
LookupKeys == {W_id(Ident(t, i)) : t \in NTypes, i \in 1..Cardinality(LifeObj)}

\* NTask::sendNotificationTo(Identifier_t identifier, notif_value, ticktowait)
\* with a ticktowait of 0: getNTaskByIdentifier, TO_NOTIFICATION, then the
\* base function. When dest->notification_queue is not a queue (not yet
\* created, or deleted) xQueueGenericSend works on a wild handle, which is
\* undefined: the program stops, or the call returns either value.
sendNotificationToIdentifier(c, key, notif_value) ==
    /\ pc[c] = "idle"
    /\ LET dest == getNTaskByIdentifier(key)
           e == [d0 |-> TO_NOTIFICATION(c, notif_value), call |-> 0,
                 op |-> "sendNotificationTo", payload |-> "none"]
           done(r, q) ==
               last' = [op |-> "sendNotificationTo", obj |-> dest,
                        key |-> key, queue |-> q, ret |-> r]
       IN  IF dest = NULL
           THEN /\ done("pdFALSE", "none")
                /\ UNCHANGED <<notification_queue, pc>>
           ELSE IF dest \in DOMAIN notification_queue
           THEN LET s == xQueueSend(notification_queue[dest], e, "back",
                                    RTQueueLength)
                IN  /\ notification_queue' =
                          [notification_queue EXCEPT ![dest] = s.queue]
                    /\ done(s.ret, "allocated")
                    /\ pc' = pc
           ELSE /\ notification_queue' = notification_queue
                /\ \/ /\ pc' = [x \in DOMAIN pc |-> "panic"]
                      /\ done("none", "missing")
                   \/ /\ pc' = pc
                      /\ \E r \in {"pdTRUE", "pdFALSE"} : done(r, "missing")
    /\ UNCHANGED <<ntask_list, identifier, live>>
    /\ UNCHANGED othervars
    /\ UNCHANGED <<receiving_buff, borrowed, mutex_receiving_buff, loc, wq, rt,
                   jobs, execLog, notifLog, rtLog>>

NextLife ==
    \/ \E o \in LifeObj, t \in NTypes : Ctor_Register(o, t)
    \/ \E o \in LifeObj : Ctor_QueueCreate(o)
    \/ \E o \in LifeObj : Ctor_RingbufferCreate(o)
    \/ \E o \in LifeObj : Ctor_MutexCreate(o)
    \/ \E o \in LifeObj : Dtor_SemaphoreDelete(o)
    \/ \E o \in LifeObj : Dtor_RingbufferDelete(o)
    \/ \E o \in LifeObj : Dtor_Erase(o)
    \/ \E o \in LifeObj : Dtor_QueueDelete(o)
    \/ \E key \in LookupKeys : sendNotificationToIdentifier(CA, key, DATA_READY)

SpecLife == InitLife /\ [][NextLife]_vars

\* C30: every actor a lookup can return has its notification queue and, as
\* an RTask, its ring buffer and mutex: an actor is in the directory only
\* while these exist, so that a send through the directory never works on a
\* queue, ring buffer or mutex that is missing or released.
C30_VisibleOnlyWithResources ==
    /\ \A key \in LookupKeys :
          getNTaskByIdentifier(key) # NULL => Allocated(getNTaskByIdentifier(key))
    /\ \A t \in NTypes :
          \A i \in 1..Len(getNTaskByType(t)) : Allocated(getNTaskByType(t)[i])
    /\ last.op = "sendNotificationTo" => last.queue # "missing"

(***************************************************************************)
(* The pairing of notifications and payloads of concurrent senders,        *)
(* checked under SpecTrip.                                                 *)
(***************************************************************************)
\* the sendDataTo calls in the order of their notifications: those the reply
\* target received, then those waiting in its queue
NotificationOrder ==
    LET waiting == [i \in 1..Len(notification_queue[RT]) |->
                       notification_queue[RT][i].call]
        bySendData(j) == jobs[j].op \in {"sendData", "sendDataTo"}
    IN  SelectSeq(ReceivedCalls \o waiting, bySendData)

\* the sendDataTo calls in the order of their payloads: those the reply
\* target received, then those waiting in its ring buffer
PayloadOrder ==
    LET isData(e) == e.what = "data"
        got == SelectSeq(rtLog, isData)
    IN  [i \in 1..Len(got) |-> got[i].call]
            \o [i \in 1..Len(receiving_buff[RT]) |-> receiving_buff[RT][i].call]

\* C31: when several senders call sendDataTo with a notification to the same
\* destination, their notifications stand in its queue in the order of
\* their payloads in its ring buffer: the k-th notification is that of the
\* call of the k-th payload (a call between its push and its notification
\* has its payload last and no notification yet).
C31_PairedOrder ==
    /\ Len(NotificationOrder) <= Len(PayloadOrder)
    /\ \A k \in 1..Len(NotificationOrder) : NotificationOrder[k] = PayloadOrder[k]

(***************************************************************************)
(* sendWork on work queues of every length the constructor is given.       *)
(***************************************************************************)
\* WorkQueue(priority, workQueueLength), WorkQueue.cpp:11: the ring buffer
\* gets (sizeof(WorkItem) + 8) * workQueueLength bytes
InitLength ==
    /\ ntask_list = BootList
    /\ identifier = BootIdentifier
    /\ live = Actors
    /\ last = [op |-> "none", obj |-> NULL, key |-> 0]
    /\ InitChan
    /\ workQueueLength \in 1..WorkQueueLength
    /\ InitTask
    /\ InitSensor

\* both clients submitting work with sendWork, the work queue's thread
NextLength ==
    \/ \E c \in Clients, item \in WorkItems : sendWork(c, item)
    \/ \E th \in Senders : SD_Take(th)
    \/ \E th \in Senders : SD_RingSend(th)
    \/ \E th \in Senders : SD_RingFail(th)
    \/ \E th \in Senders : SD_Notify(th)
    \/ \E th \in Senders : SD_Give(th)
    \/ WQ_ReceiveNotification

SpecLength == InitLength /\ [][NextLength]_vars

\* the notification of call j is in the work queue's mailbox or was received
NotificationEnqueued(j) ==
    \E i \in 1..Len(notifLog) : notifLog[i] = j

\* the descriptor of call j is in the work queue's ring buffer or was
\* received from it
DescriptorEnqueued(j) ==
    \/ \E i \in 1..Len(receiving_buff[WQ]) : receiving_buff[WQ][i].call = j
    \/ wq.job = j
    \/ \E i \in 1..Len(execLog) : execLog[i] = j

\* C32: sendWork waits without bound for the queue's lock, for ring-buffer
\* space and for mailbox space: a sendWork call never returns failure, and
\* a call that has returned has enqueued both its descriptor and its
\* notification
C32_SendWorkBlocksUntilEnqueued ==
    \A j \in 1..Len(jobs) :
        jobs[j].op = "sendWork" =>
            /\ jobs[j].ret # "pdFALSE"
            /\ jobs[j].ret = "pdTRUE" =>
                  NotificationEnqueued(j) /\ DescriptorEnqueued(j)

(***************************************************************************)
(* The words of the notifications stamped with the sender's identity, and  *)
(* the result of receiveNotification.                                      *)
(***************************************************************************)
\* notif_value given to the send functions
StampValues == {0, JOB_DONE}

\* identifiers the constructor gives the sending actor: NTask(ntype) with
\* the first free id, and with the id the exhausted search returns
StampIdentifiers ==
    {Ident(t, i) : t \in {0, 2}, i \in {NTASK_ID_STARTING, NTASK_ID_LIMIT}}

InitWord ==
    /\ ntask_list = BootList
    /\ \E ident \in StampIdentifiers :
          identifier = [BootIdentifier EXCEPT ![CA] = ident]
    /\ live = Actors
    /\ last = [op |-> "none", obj |-> NULL, key |-> 0]
    /\ InitChan
    /\ workQueueLength = WorkQueueLength
    /\ InitTask
    /\ InitSensor

\* a task and interrupt handlers notifying the reply target, which receives
\* with a finite ticktowait
NextWord ==
    \/ \E v \in StampValues, k \in Ticks, position \in {"back", "front"} :
          sendNotificationTo(CA, [how |-> "ref", to |-> RT], v, k, position)
    \/ \E v \in StampValues : sendNotificationFromIsrTo(RT, v)
    \/ \E v \in StampValues : sendNotificationToFrontFromIsrTo(RT, v)
    \/ RT_ReceiveNotification
    \/ RT_ReceiveNotificationTimeout

SpecWord == InitWord /\ [][NextWord]_vars

\* C33: a notification built by TO_NOTIFICATION or NOTIFICATION_FROM_ISR has
\* a non-zero 32-bit word whatever its value, so every word in a queue and
\* every word receiveNotification returns for a delivered notification is
\* non-zero, and receiveNotification returns the zero word only when it
\* timed out.
C33_TimeoutDistinguishable ==
    /\ \A d \in Actors : \A i \in 1..Len(notification_queue[d]) :
          notification_queue[d][i].d0 # 0
    /\ rt.call > 0 => rt.notif # 0
    /\ rt.payload = "timeout" => rt.notif = 0
    /\ (rt # NoRecv /\ rt.notif = 0) => rt.payload = "timeout"

\* receiveNotification returned a notification of value 0 sent by the actor
\* of type 0, another of value 0 from an interrupt handler was received
\* before, and a timeout was returned in between
C33_Witness ==
    /\ rt.call > 0
    /\ NotifValue(rt.notif) = 0
    /\ NotifIdentifier(rt.notif).type = 0
    /\ \E i \in 1..Len(rtLog) :
          /\ NotifValue(rtLog[i].word) = 0
          /\ NotifIdentifier(rtLog[i].word).type = NTASK_TYPE_NOTIF_ISR_CONTX

(***************************************************************************)
(* Task: the scheduler task of an actor. The actor is the RTask at RT; the *)
(* functions of Task are called on it by another thread while the object   *)
(* exists. A thread that uses the object after its destructor ran reads    *)
(* and writes released memory, which is undefined: the program stops, or   *)
(* the thread goes on with the values the memory holds.                    *)
(***************************************************************************)
\* scheduler tasks that exist at a time
MaxThreads == 2

\* everything that is neither of Task nor a position of a thread
nontask == <<dirvars, notification_queue, receiving_buff, borrowed,
             mutex_receiving_buff, loc, wq, rt, jobs, execLog, notifLog,
             rtLog, workQueueLength, sensorvars>>

\* the directory holds the client CA and the actor at RT, constructed
InitStarted ==
    /\ ntask_list = <<CA, RT>>
    /\ identifier = [x \in {CA, RT} |-> BootIdentifier[x]]
    /\ live = {CA, RT}
    /\ last = [op |-> "none", obj |-> NULL, key |-> 0]
    /\ notification_queue = [x \in {CA, RT} |-> <<>>]
    /\ receiving_buff = [x \in {CA, RT} |-> <<>>]
    /\ borrowed = [x \in {CA, RT} |-> <<>>]
    /\ mutex_receiving_buff = [x \in {CA, RT} |-> NULL]
    /\ pc = [x \in {CA} \cup LifeObj |->
               IF x = CA THEN "idle" ELSE IF x = RT THEN "ready" ELSE "absent"]
    /\ loc = [x \in {CA} |-> NoCall]
    /\ wq = NoWork
    /\ rt = NoRecv
    /\ jobs = <<>>
    /\ execLog = <<>>
    /\ notifLog = <<>>
    /\ rtLog = <<>>
    /\ workQueueLength = WorkQueueLength
    /\ InitTask
    /\ InitSensor

\* the object exists: constructed, and its destructor has not begun
Constructed == pc[RT] = "ready"

\* the target's exception handler stopped the program
Stopped == pc[RT] = "panic"

Panic == pc' = [x \in DOMAIN pc |-> "panic"]

\* the handle xTaskCreatePinnedToCore returns
NewHandle == CHOOSE h \in 1..MaxThreads : h \notin DOMAIN threads

\* Task::start, lines 86-94: warns when m_handle is set, and creates the
\* scheduler task that runs runTask(this)
Task_start ==
    /\ Constructed
    /\ Cardinality(DOMAIN threads) < MaxThreads
    /\ threads' = With(threads, NewHandle, [at |-> "entry", suspended |-> FALSE])
    /\ m_handle' = NewHandle
    /\ UNCHANGED <<m_running, pc>>
    /\ UNCHANGED nontask

\* Task::suspend, lines 54-64
Task_suspend ==
    /\ Constructed
    /\ IF m_handle = NULL
       THEN UNCHANGED <<threads, m_running>>
       ELSE /\ threads' = [threads EXCEPT ![m_handle].suspended = TRUE]
            /\ m_running' = FALSE
    /\ UNCHANGED <<m_handle, pc>>
    /\ UNCHANGED nontask

\* Task::resume, lines 69-79
Task_resume ==
    /\ Constructed
    /\ IF m_handle = NULL
       THEN UNCHANGED <<threads, m_running>>
       ELSE /\ threads' = [threads EXCEPT ![m_handle].suspended = FALSE]
            /\ m_running' = TRUE
    /\ UNCHANGED <<m_handle, pc>>
    /\ UNCHANGED nontask

\* Task::stop, lines 100-108, called by another thread
Task_stop ==
    /\ Constructed
    /\ IF m_handle = NULL
       THEN UNCHANGED <<threads, m_handle, m_running>>
       ELSE /\ threads' = Without(threads, m_handle)
            /\ m_handle' = NULL
            /\ m_running' = FALSE
    /\ pc' = pc
    /\ UNCHANGED nontask

\* Task::runTask, lines 43-46: the scheduler task begins, sets m_running
\* and enters run
Task_runTask(h) ==
    /\ ~Stopped
    /\ h \in DOMAIN threads
    /\ threads[h].at = "entry"
    /\ ~threads[h].suspended
    /\ \/ /\ threads' = [threads EXCEPT ![h].at = "run"]
          /\ m_running' = TRUE
          /\ pc' = pc
       \/ /\ ~Constructed
          /\ Panic
          /\ UNCHANGED <<threads, m_running>>
    /\ m_handle' = m_handle
    /\ UNCHANGED nontask

\* Task::runTask, line 48, and Task::stop called by it: run returned. With
\* m_handle this task's own, vTaskDelete ends the calling task and does not
\* return; with another task's handle that task is deleted, and with none
\* stop returns at once: then runTask returns, which the port answers by
\* stopping the program
Task_runReturns(h) ==
    /\ ~Stopped
    /\ h \in DOMAIN threads
    /\ threads[h].at = "run"
    /\ ~threads[h].suspended
    /\ \/ IF m_handle = h
          THEN /\ m_handle' = NULL
               /\ threads' = Without(threads, h)
               /\ UNCHANGED <<m_running, pc>>
          ELSE IF m_handle = NULL
          THEN /\ Panic
               /\ UNCHANGED <<threads, m_handle, m_running>>
          ELSE /\ m_handle' = NULL
               /\ threads' = Without(threads, m_handle)
               /\ m_running' = FALSE
               /\ Panic
       \/ /\ ~Constructed
          /\ Panic
          /\ UNCHANGED <<threads, m_handle, m_running>>
    /\ UNCHANGED nontask

\* the threads of the actor and of its callers, and the destructors
\* ~RTask, ~NTask and Task::~Task, which is empty (line 24)
NextTask ==
    \/ Task_start
    \/ Task_suspend
    \/ Task_resume
    \/ Task_stop
    \/ \E h \in 1..MaxThreads : Task_runTask(h)
    \/ \E h \in 1..MaxThreads : Task_runReturns(h)
    \/ Dtor_SemaphoreDelete(RT)
    \/ Dtor_RingbufferDelete(RT)
    \/ Dtor_Erase(RT)
    \/ Dtor_QueueDelete(RT)

SpecTask == InitStarted /\ [][NextTask]_vars

\* C34: once the actor is destroyed no scheduler task of it exists: none
\* runs its run loop on the released queue, ring buffer or mutex.
C34_NoThreadAfterDestruction ==
    pc[RT] = "absent" => DOMAIN threads = {}

\* C35: is_task_running() is true only if the Task holds the handle of a
\* scheduler task that exists and is not suspended: a Task never started,
\* stopped, suspended, or whose run has returned reports false.
C35_RunningFlagConsistent ==
    (Constructed /\ m_running) =>
        /\ m_handle # NULL
        /\ m_handle \in DOMAIN threads
        /\ ~threads[m_handle].suspended

(***************************************************************************)
(* The distance sensor: Ultrasound_Start, the timer callback               *)
(* ultrasound_periodic_job, which runs in the timer task, and the echo     *)
(* interrupt handler ultrasound_gpio_isr_echo, which interrupts it between *)
(* any two of its statements. Durations are not measured: an armed timer   *)
(* may expire at any time, and the echo line changes when it likes.        *)
(***************************************************************************)
\* values esp_timer_get_time() is told apart by: the time of a trigger
\* pulse differs from the times of the pulses just before it
NumStamps == 2

\* time_echo_end - time_echo_start of an echo, in microseconds
Durations == {583, 5831}

\* line 223: (duration * VELOCITY_SOUND_MM_PER_MS) / (1000 * 2)
DistanceMm(duration) == (duration * VELOCITY_SOUND_MM_PER_MS) \div (1000 * 2)

\* everything that is not of the sensor
nonsensor == <<dirvars, chanvars, workQueueLength, taskvars>>

\* Ultrasound_Start, lines 154-159, called once after Ultrasound_Init
Ultrasound_Start ==
    /\ state = ULTRASOUND_STATE_INIT
    /\ state' = ULTRASOUND_STATE_WAIT_TRIG_START
    /\ timer' = TRUE
    /\ UNCHANGED <<error_count, last_measure, time_trig_start, gpio_trig,
                   gpio_echo, job, cycle, onRead>>
    /\ UNCHANGED nonsensor

\* the one-shot timer expires: the timer task calls ultrasound_periodic_job
TimerExpire ==
    /\ timer
    /\ job = "idle"
    /\ timer' = FALSE
    /\ job' = "switch"
    /\ UNCHANGED <<state, error_count, last_measure, time_trig_start,
                   gpio_trig, gpio_echo, cycle, onRead>>
    /\ UNCHANGED nonsensor

\* line 173: switch (handle->state), also of the call on lines 192 and 197
Job_Switch ==
    /\ job = "switch"
    /\ job' = IF state = ULTRASOUND_STATE_WAIT_TRIG_START THEN "trig_start"
              ELSE IF state = ULTRASOUND_STATE_WAIT_TRIG_END THEN "trig_end"
              ELSE IF state \in {ULTRASOUND_STATE_WAIT_ECHO_START,
                                 ULTRASOUND_STATE_WAIT_ECHO_END}
              THEN "timeout"
              ELSE "idle"
    /\ UNCHANGED <<state, error_count, last_measure, time_trig_start, timer,
                   gpio_trig, gpio_echo, cycle, onRead>>
    /\ UNCHANGED nonsensor

\* line 176: gpio_intr_disable
Job_IntrDisable ==
    /\ job = "trig_start"
    /\ gpio_echo' = [gpio_echo EXCEPT !.intr_enabled = FALSE]
    /\ job' = "pulse"
    /\ UNCHANGED <<state, error_count, last_measure, time_trig_start, timer,
                   gpio_trig, cycle, onRead>>
    /\ UNCHANGED nonsensor

\* lines 177-180, with the echo interrupt disabled: the trigger pin goes
\* high, the time is taken, the timer is started for the pulse duration
Job_Pulse ==
    /\ job = "pulse"
    /\ gpio_trig' = 1
    /\ time_trig_start' = (time_trig_start + 1) % NumStamps
    /\ timer' = TRUE
    /\ state' = ULTRASOUND_STATE_WAIT_TRIG_END
    /\ cycle' = [pulse |-> TRUE, callbacks |-> 0, errors |-> 0]
    /\ job' = "idle"
    /\ UNCHANGED <<error_count, last_measure, gpio_echo, onRead>>
    /\ UNCHANGED nonsensor

\* lines 183-187, with the echo interrupt disabled until the last of them:
\* the trigger pin goes low, the timer is started for the rest of the
\* period, the interrupt is enabled for the rising edge
Job_TrigEnd ==
    /\ job = "trig_end"
    /\ gpio_trig' = 0
    /\ timer' = TRUE
    /\ state' = ULTRASOUND_STATE_WAIT_ECHO_START
    /\ gpio_echo' = [gpio_echo EXCEPT !.intr_type = "POSEDGE",
                                      !.intr_enabled = TRUE]
    /\ job' = "idle"
    /\ UNCHANGED <<error_count, last_measure, time_trig_start, cycle, onRead>>
    /\ UNCHANGED nonsensor

\* lines 190 and 195: the timer expired while waiting for the echo
Job_TimeoutState ==
    /\ job = "timeout"
    /\ state' = ULTRASOUND_STATE_WAIT_TRIG_START
    /\ job' = "count"
    /\ UNCHANGED <<error_count, last_measure, time_trig_start, timer,
                   gpio_trig, gpio_echo, cycle, onRead>>
    /\ UNCHANGED nonsensor

Job_TimeoutCount_NoRestart ==
    /\ job = "count"
    /\ error_count' = (error_count + 1) % 256
    /\ cycle' = [cycle EXCEPT !.errors = @ + 1]
    /\ job' = "idle"
    /\ UNCHANGED <<state, last_measure, time_trig_start, timer, gpio_trig,
                   gpio_echo, onRead>>
    /\ UNCHANGED nonsensor

\* lines 191-192 and 196-197: ++error_count, then the function calls itself
Job_TimeoutCount ==
    /\ job = "count"
    /\ error_count' = (error_count + 1) % 256
    /\ cycle' = [cycle EXCEPT !.errors = @ + 1]
    /\ job' = "switch"
    /\ UNCHANGED <<state, last_measure, time_trig_start, timer, gpio_trig,
                   gpio_echo, onRead>>
    /\ UNCHANGED nonsensor

IntrRaised_Always(level) == TRUE

\* the interrupt of the echo pin is raised by a change to `level`
IntrRaised(level) ==
    /\ gpio_echo.intr_enabled
    /\ gpio_echo.intr_type = IF level = 1 THEN "POSEDGE" ELSE "NEGEDGE"

\* ultrasound_gpio_isr_echo, lines 204-233, run as a whole; `level` is the
\* level the echo pin has taken, `duration` the time since the rising edge
ultrasound_gpio_isr_echo(level, duration) ==
    IF state = ULTRASOUND_STATE_WAIT_ECHO_START
    THEN /\ state' = ULTRASOUND_STATE_WAIT_ECHO_END
         /\ gpio_echo' = [gpio_echo EXCEPT !.level = level, !.intr_type = "NEGEDGE"]
         /\ UNCHANGED <<last_measure, cycle, onRead>>
    ELSE IF state = ULTRASOUND_STATE_WAIT_ECHO_END
    THEN /\ last_measure' = [timestamp_us |-> time_trig_start,
                             distance_mm |-> DistanceMm(duration)]
         /\ gpio_echo' = [gpio_echo EXCEPT !.level = level, !.intr_enabled = FALSE]
         /\ onRead' = [from |-> "isr", state |-> state,
                       intr_enabled |-> FALSE,
                       intr_type |-> gpio_echo.intr_type,
                       measured |-> last_measure'.timestamp_us = time_trig_start]
         /\ cycle' = [cycle EXCEPT !.callbacks = @ + 1]
         /\ state' = ULTRASOUND_STATE_WAIT_TRIG_START
    ELSE /\ gpio_echo' = [gpio_echo EXCEPT !.level = level]
         /\ UNCHANGED <<state, last_measure, cycle, onRead>>

\* the echo line changes to `level`; with the interrupt enabled for this
\* edge the handler runs
EchoEdge(level, duration) ==
    /\ gpio_echo.level # level
    /\ IF IntrRaised(level)
       THEN ultrasound_gpio_isr_echo(level, duration)
       ELSE /\ gpio_echo' = [gpio_echo EXCEPT !.level = level]
            /\ UNCHANGED <<state, last_measure, cycle, onRead>>
    /\ UNCHANGED <<error_count, time_trig_start, timer, gpio_trig, job>>
    /\ UNCHANGED nonsensor

\* the rising edge of the echo
Echo_Rise ==
    /\ gpio_echo.level = 0
    /\ EchoEdge(1, 0)

\* the falling edge of the echo
Echo_Fall(duration) ==
    /\ gpio_echo.level = 1
    /\ EchoEdge(0, duration)

NextSensor ==
    \/ Ultrasound_Start
    \/ TimerExpire
    \/ Job_Switch
    \/ Job_IntrDisable
    \/ Job_Pulse
    \/ Job_TrigEnd
    \/ Job_TimeoutState
    \/ Job_TimeoutCount
    \/ Echo_Rise
    \/ \E duration \in Durations : Echo_Fall(duration)

SpecSensor == InitBoot /\ [][NextSensor]_vars

(***************************************************************************)
(* Claims about the distance sensor.                                       *)
(***************************************************************************)
\* the step invokes the callback
CallbackInvoked == cycle'.callbacks > cycle.callbacks

\* the step is an edge of the echo line
EchoEdgeStep == gpio_echo'.level # gpio_echo.level

C37_ExactlyOneOutcome ==
    /\ cycle.callbacks + cycle.errors <= 1
    /\ (job = "pulse" /\ cycle.pulse) => cycle.callbacks + cycle.errors >= 1
    /\ state = ULTRASOUND_STATE_WAIT_TRIG_START => gpio_trig = 0

\* the timer task runs the callback whose timer expired, to its end
FairnessSensor ==
    /\ WF_vars(TimerExpire)
    /\ WF_vars(Job_Switch)
    /\ WF_vars(Job_IntrDisable)
    /\ WF_vars(Job_Pulse)
    /\ WF_vars(Job_TrigEnd)
    /\ WF_vars(Job_TimeoutState)
    /\ WF_vars(Job_TimeoutCount)

SpecSensorLive == InitBoot /\ [][NextSensor]_vars /\ FairnessSensor

\* the cycle of the last trigger pulse has ended, with an echo or a timeout
CycleEnded == cycle.pulse /\ cycle.callbacks + cycle.errors >= 1

\* C38: once started the measurement does not stop: in every state other
\* than INIT the timer is armed, or its callback is running and will arm
\* it; and after every cycle that ended, with an echo or with a timeout,
\* the trigger pin is driven high again.
C38_MeasurementNeverStops ==
    /\ [](state # ULTRASOUND_STATE_INIT => (timer \/ job # "idle"))
    /\ [](CycleEnded => <>(gpio_trig = 1 /\ ~CycleEnded))

\* a trigger pulse is driven after cycles that ended with an echo and
\* cycles that ended with a timeout
C38_Witness ==
    /\ gpio_trig = 1
    /\ cycle = [pulse |-> TRUE, callbacks |-> 0, errors |-> 0]
    /\ onRead.from = "isr"
    /\ error_count > 0

====
